---- MODULE Spec2Model ----
(***************************************************************************)
(* A model of the ingestion and normalisation pipeline of                  *)
(* ai-devtools-vscode: the foreign-format (Codex) converter, the per-line  *)
(* validator, the store scanner in its blocking and non-blocking modes,    *)
(* the sidebar provider's refresh guard and lazy previews, the preview     *)
(* extractor, the size-gated full read and the tool correlator.            *)
(*                                                                         *)
(* Representation.  A file's text is the sequence of its lines (the result *)
(* of content.split('\n'); joining with '\n' is the inverse).  A line is a *)
(* record tagged by what JSON.parse makes of it:                           *)
(*   [k |-> "ws",     s |-> whitespace]   a line whose trim() is empty     *)
(*   [k |-> "bad",    s |-> text]         not valid JSON                   *)
(*   [k |-> "scalar", s |-> text]         valid JSON, not an object        *)
(*   [k |-> "obj",    o |-> record]       a JSON object                    *)
(* A JSON object is a TLA+ record holding exactly the fields present.      *)
(* A message text is a sequence of tokens; " " and "\n" are whitespace.    *)
(* A field named content holds [str |-> text] or [arr |-> items], as the   *)
(* JavaScript value is a string or an array.                               *)
(***************************************************************************)
EXTENDS Integers, Sequences, FiniteSets, TLC

VARIABLES
    \* conversion + validation of one file
    content, underCodexRoot, cpc, output, outSrc, parsed,
    \* validation of one decoded value, and of its result again
    decoded, first, second, vpc,
    \* tool correlation over one entry sequence
    conversations, toolMap, tpc,
    \* the sidebar provider and its refresh tasks
    _isLoading, _folders, _loadedFolderSummaries, _scope, _workspacePath,
    tasks, calls, ignored, fileRecords, lastReturn, history,
    \* the conversation stores on disk and the two scans over them
    fs, syncResult, scan,
    \* preview extraction from one chunk
    chunk, extracted,
    \* one full read of one file in both modes
    target, syncRead, asyncRead,
    \* the viewer panel, its webview and the conversation sends in flight
    currentPanel, webview, inbox, sends, readyLog, events,
    \* the descriptors of the chunk reads
    descriptors, chunkTask, opened

convVars == <<content, underCodexRoot, cpc, output, outSrc, parsed>>
valVars == <<decoded, first, second, vpc>>
toolVars == <<conversations, toolMap, tpc>>
sideVars == <<_isLoading, _folders, _loadedFolderSummaries, _scope, _workspacePath,
              tasks, calls, ignored, fileRecords, lastReturn, history>>
scanVars == <<fs, syncResult, scan>>
sumVars == <<chunk, extracted>>
readVars == <<target, syncRead, asyncRead>>
viewVars == <<currentPanel, webview, inbox, sends, readyLog, events>>
fdVars == <<descriptors, chunkTask, opened>>
vars == <<convVars, valVars, toolVars, sideVars, scanVars, sumVars, readVars, viewVars, fdVars>>

----------------------------------------------------------------------------
(* Bounds of the model *)
MaxLines == 3
MaxConv == 3
MaxCalls == 3

----------------------------------------------------------------------------
(* JavaScript values *)
UNDEF == "<undefined>"
NULL == "<null>"
NOW == "<now>"
EmptyRec == [x \in {} |-> TRUE]

Has(r, f) == f \in DOMAIN r

getString(r, f) == IF f \in DOMAIN r THEN r[f] ELSE UNDEF

Truthy(s) == s # UNDEF /\ s # ""

WS == {" ", "\n"}

RECURSIVE TrimStart(_)
TrimStart(t) == IF t = <<>> \/ Head(t) \notin WS THEN t ELSE TrimStart(Tail(t))

RECURSIVE TrimEnd(_)
TrimEnd(t) ==
    IF t = <<>> \/ t[Len(t)] \notin WS THEN t ELSE TrimEnd(SubSeq(t, 1, Len(t) - 1))

trim(t) == TrimEnd(TrimStart(t))

RECURSIVE Join(_, _)
Join(parts, sep) ==
    IF parts = <<>> THEN <<>>
    ELSE IF Len(parts) = 1 THEN parts[1]
    ELSE parts[1] \o sep \o Join(Tail(parts), sep)

LineIsBlank(line) == line.k = "ws"

isRecordLine(line) == line.k = "obj"

JSONstringify(entry) == [k |-> "obj", o |-> entry]

Uuid(n) == "uuid-" \o ToString(n)

----------------------------------------------------------------------------
(* Meta-content heuristic *)
MetaPrefixes ==
    {"<command", "<environment_context", "<permissions instructions>",
     "<user_instructions>", "<INSTRUCTIONS>", "<collaboration_mode>",
     "<app-context>", "<turn_aborted>", "<ide_opened_file>", "<local-",
     "[Tool Result]", "Caveat:"}

isMetaConversationText(text) ==
    LET trimmed == trim(text) IN
    IF trimmed = <<>> THEN TRUE
    ELSE IF Head(trimmed) \in MetaPrefixes THEN TRUE
    ELSE IF Head(trimmed) = "# AGENTS" THEN TRUE
    ELSE \E i \in 1..Len(trimmed) : trimmed[i] = "tool_use_id"

----------------------------------------------------------------------------
(* Foreign-format converter *)

RECURSIVE CodexParts(_)
CodexParts(blocks) ==
    IF blocks = <<>> THEN <<>>
    ELSE LET b == Head(blocks)
             rest == CodexParts(Tail(blocks))
             blockType == getString(b, "type")
         IN IF ~Truthy(blockType) THEN rest
            ELSE IF blockType \in {"input_text", "output_text"} /\ Has(b, "text")
                 THEN <<b.text>> \o rest
            ELSE IF blockType = "input_image"
                 THEN LET imageUrl == IF Has(b, "image_url") THEN b.image_url
                                      ELSE getString(b, "url")
                      IN <<IF Truthy(imageUrl) THEN <<"[Image]", " ", imageUrl>>
                           ELSE <<"[Image]">> >> \o rest
            ELSE rest

\* rec is the object whose .content is read; an absent content is not an array
extractCodexMessageText(rec) ==
    IF ~Has(rec, "content") \/ ~Has(rec.content, "arr") THEN <<>>
    ELSE trim(Join(CodexParts(rec.content.arr), <<"\n", "\n">>))

normalizeTimestamp(parsedRec) ==
    IF Has(parsedRec, "timestamp") /\ parsedRec.timestamp # "" THEN parsedRec.timestamp
    ELSE NOW

\* raw is payload.arguments ?? payload.input, tagged by its JavaScript type
parseToolInput(p) ==
    LET raw == IF Has(p, "arguments") THEN p.arguments
               ELSE IF Has(p, "input") THEN p.input
               ELSE [t |-> "undefined"]
    IN CASE raw.t = "record" -> raw.v
         [] raw.t = "string" /\ raw.json = "blank" -> EmptyRec
         [] raw.t = "string" /\ raw.json = "record" -> raw.v
         [] raw.t = "string" /\ raw.json = "scalar" -> [value |-> raw.s]
         [] raw.t = "string" /\ raw.json = "bad" -> [raw |-> raw.s]
         [] OTHER -> EmptyRec

normalizeToolOutput(p) ==
    IF ~Has(p, "output") THEN ""
    ELSE IF p.output.t = "string" THEN p.output.s
    ELSE "JSON:" \o p.output.s

InitialContext ==
    [sessionId |-> Uuid(0), cwd |-> "", version |-> "codex",
     model |-> "gpt-5-codex", agentId |-> ""]

createBaseEntry(context, ts, isMeta, n) ==
    [isSidechain |-> FALSE, userType |-> "external", cwd |-> context.cwd,
     sessionId |-> context.sessionId, version |-> context.version,
     uuid |-> Uuid(n), timestamp |-> ts, parentUuid |-> NULL]
    @@ (IF isMeta THEN [isMeta |-> TRUE] ELSE EmptyRec)
    @@ (IF context.agentId # "" THEN [agentId |-> context.agentId] ELSE EmptyRec)

createAssistantMessage(context, ts, msgContent, isMeta, n) ==
    createBaseEntry(context, ts, isMeta, n)
    @@ [type |-> "assistant",
        message |-> [id |-> Uuid(n + 1), type |-> "message", role |-> "assistant",
                     model |-> context.model, content |-> [arr |-> msgContent],
                     stop_reason |-> NULL, stop_sequence |-> NULL]]

createUserMessage(context, ts, msgContent, isMeta, n) ==
    createBaseEntry(context, ts, isMeta, n)
    @@ [type |-> "user", message |-> [role |-> "user", content |-> msgContent]]

createSystemMessage(context, ts, text, isMeta, n) ==
    createBaseEntry(context, ts, isMeta, n)
    @@ [type |-> "system", content |-> [str |-> text], toolUseID |-> Uuid(n + 1), level |-> "info"]

\* entries.push(entry): st is the state of the pass, i the source line, used
\* the number of identifiers drawn from randomUUID
PushPrepend(st, entry, i, used) ==
    [st EXCEPT !.entries = <<entry>> \o @, !.srcs = <<i>> \o @, !.n = @ + used]

Push(st, entry, i, used) ==
    [st EXCEPT !.entries = Append(@, entry), !.srcs = Append(@, i), !.n = @ + used]

pushAssistantText(st, ts, text, i) ==
    LET trimmed == trim(text) IN
    IF trimmed = <<>> THEN st
    ELSE Push(st, createAssistantMessage(st.ctx, ts,
                    <<[type |-> "text", text |-> trimmed]>>, FALSE, st.n), i, 2)

pushAssistantThinking(st, ts, text, i) ==
    LET trimmed == trim(text) IN
    IF trimmed = <<>> THEN st
    ELSE Push(st, createAssistantMessage(st.ctx, ts,
                    <<[type |-> "thinking", thinking |-> trimmed]>>, FALSE, st.n), i, 2)

pushAssistantToolUse(st, ts, toolId, toolName, input, i) ==
    Push(st, createAssistantMessage(st.ctx, ts,
               <<[type |-> "tool_use", id |-> toolId, name |-> toolName,
                  input |-> input]>>, TRUE, st.n), i, 2)

pushUserToolResult(st, ts, toolUseId, out, i) ==
    Push(st, createUserMessage(st.ctx, ts,
               [arr |-> <<[type |-> "tool_result", tool_use_id |-> toolUseId,
                           content |-> [str |-> <<out>>]]>>], TRUE, st.n), i, 1)

pushUserText(st, ts, text, i) ==
    LET trimmed == trim(text) IN
    IF trimmed = <<>> THEN st
    ELSE Push(st, createUserMessage(st.ctx, ts, [str |-> trimmed],
                    isMetaConversationText(trimmed), st.n), i, 1)

pushDeveloperAsSystem(st, ts, text, i) ==
    LET trimmed == trim(text) IN
    IF trimmed = <<>> THEN st
    ELSE Push(st, createSystemMessage(st.ctx, ts, trimmed, TRUE, st.n), i, 2)

RECURSIVE ReasoningParts(_)
ReasoningParts(items) ==
    IF items = <<>> THEN <<>>
    ELSE IF Has(Head(items), "text") THEN <<Head(items).text>> \o ReasoningParts(Tail(items))
    ELSE ReasoningParts(Tail(items))

extractReasoningSummary(payload) ==
    IF Has(payload, "summary") THEN trim(Join(ReasoningParts(payload.summary), <<"\n", "\n">>))
    ELSE <<>>

updateContextFromSessionMeta(context, entry) ==
    IF getString(entry, "type") # "session_meta" THEN context
    ELSE IF ~Has(entry, "payload") THEN context
    ELSE LET payload == entry.payload
             sessionId == getString(payload, "id")
             cwd == getString(payload, "cwd")
             cliVersion == getString(payload, "cli_version")
             model == getString(payload, "model")
             parentThreadId ==
                 IF Has(payload, "source") /\ Has(payload.source, "subagent")
                    /\ Has(payload.source.subagent, "thread_spawn")
                 THEN getString(payload.source.subagent.thread_spawn, "parent_thread_id")
                 ELSE UNDEF
         IN [sessionId |-> IF Truthy(sessionId) THEN sessionId ELSE context.sessionId,
             cwd |-> IF Truthy(cwd) THEN cwd ELSE context.cwd,
             version |-> IF Truthy(cliVersion) THEN cliVersion ELSE context.version,
             model |-> IF Truthy(model) THEN model ELSE context.model,
             agentId |-> IF Truthy(parentThreadId) THEN parentThreadId ELSE context.agentId]

updateContextFromTurnContext(context, entry) ==
    IF getString(entry, "type") # "turn_context" THEN context
    ELSE IF ~Has(entry, "payload") THEN context
    ELSE LET payload == entry.payload
             cwd == getString(payload, "cwd")
             model == getString(payload, "model")
         IN [context EXCEPT
                !.cwd = IF Truthy(cwd) /\ @ = "" THEN cwd ELSE @,
                !.model = IF Truthy(model) THEN model ELSE @]

\* role dispatch shared by the response_item/message and the top-level message branch
PushMessageByRole(st, rec, ts, i) ==
    LET role == getString(rec, "role")
        text == extractCodexMessageText(rec)
    IN IF role = "assistant" THEN pushAssistantText(st, ts, text, i)
       ELSE IF role = "user" THEN pushUserText(st, ts, text, i)
       ELSE IF role = "developer" THEN pushDeveloperAsSystem(st, ts, text, i)
       ELSE st

ConvertResponseItem(s, parsedRec, ts, i) ==
    IF ~Has(parsedRec, "payload") THEN s
    ELSE LET payload == parsedRec.payload
             pt == getString(payload, "type")
         IN IF pt = "message" THEN PushMessageByRole(s, payload, ts, i)
            ELSE IF pt = "reasoning"
                 THEN LET summaryText == extractReasoningSummary(payload)
                      IN IF summaryText # <<>>
                         THEN pushAssistantThinking(s, ts, summaryText, i)
                         ELSE s
            ELSE IF pt \in {"function_call", "custom_tool_call"}
                 THEN LET hasId == Has(payload, "call_id")
                          toolId == IF hasId THEN payload.call_id ELSE Uuid(s.n)
                          s1 == IF hasId THEN s ELSE [s EXCEPT !.n = @ + 1]
                          toolName == IF Has(payload, "name") THEN payload.name
                                      ELSE "tool_call"
                      IN pushAssistantToolUse(s1, ts, toolId, toolName,
                                              parseToolInput(payload), i)
            ELSE IF pt \in {"function_call_output", "custom_tool_call_output"}
                 THEN LET hasId == Has(payload, "call_id")
                          toolId == IF hasId THEN payload.call_id ELSE Uuid(s.n)
                          s1 == IF hasId THEN s ELSE [s EXCEPT !.n = @ + 1]
                      IN pushUserToolResult(s1, ts, toolId, normalizeToolOutput(payload), i)
            ELSE IF pt = "web_search_call"
                 THEN LET toolId == Uuid(s.n)
                          s1 == [s EXCEPT !.n = @ + 1]
                          input == IF Has(payload, "action") THEN payload.action
                                   ELSE EmptyRec
                          s2 == pushAssistantToolUse(s1, ts, toolId, "web_search", input, i)
                      IN IF Has(payload, "status")
                         THEN pushUserToolResult(s2, ts, toolId,
                                                 "status: " \o payload.status, i)
                         ELSE s2
            ELSE s

ConvertEventMsg(s, parsedRec, ts, i) ==
    IF ~Has(parsedRec, "payload") THEN s
    ELSE LET payload == parsedRec.payload
             pt == getString(payload, "type")
         IN IF pt = "user_message" /\ Has(payload, "message")
            THEN pushUserText(s, ts, payload.message, i)
            ELSE IF pt = "agent_message" /\ Has(payload, "message")
            THEN pushAssistantText(s, ts, payload.message, i)
            ELSE IF pt = "agent_reasoning" /\ Has(payload, "text")
            THEN pushAssistantThinking(s, ts, payload.text, i)
            ELSE s

\* one iteration of the loop over the non-empty lines
ConvertLine(st, line, i, hasResponseMessages) ==
    IF ~isRecordLine(line) THEN st
    ELSE LET parsedRec == line.o
             s == [st EXCEPT !.ctx = updateContextFromTurnContext(
                                        updateContextFromSessionMeta(@, parsedRec), parsedRec)]
             ts == normalizeTimestamp(parsedRec)
             type == getString(parsedRec, "type")
         IN IF type = "response_item" THEN ConvertResponseItem(s, parsedRec, ts, i)
            ELSE IF type = "message" THEN PushMessageByRole(s, parsedRec, ts, i)
            ELSE IF type = "event_msg" /\ ~hasResponseMessages
                 THEN ConvertEventMsg(s, parsedRec, ts, i)
            ELSE s

hasResponseMessagesIn(text) ==
    \E i \in 1..Len(text) :
        /\ ~LineIsBlank(text[i])
        /\ isRecordLine(text[i])
        /\ getString(text[i].o, "type") = "response_item"
        /\ Has(text[i].o, "payload")
        /\ getString(text[i].o.payload, "type") = "message"

RECURSIVE ConvertFrom(_, _, _)
ConvertFrom(st, text, i) ==
    IF i > Len(text) THEN st
    ELSE IF LineIsBlank(text[i]) THEN ConvertFrom(st, text, i + 1)
    ELSE ConvertFrom(ConvertLine(st, text[i], i, hasResponseMessagesIn(text)), text, i + 1)

\* the state of the pass after the last line: context, entries, and for each
\* entry the index of the source line it was emitted for
ConvertPass(text) ==
    ConvertFrom([ctx |-> InitialContext, entries |-> <<>>, srcs |-> <<>>, n |-> 1], text, 1)

StringifyAll(entries) == [j \in 1..Len(entries) |-> JSONstringify(entries[j])]

NonBlank(text) == SelectSeq(text, LAMBDA l : ~LineIsBlank(l))

convertCodexDroppingBlank(text) ==
    LET pass == ConvertPass(text) IN
    IF pass.entries = <<>> THEN NonBlank(text) ELSE StringifyAll(pass.entries)

convertCodexJsonlToConversationJsonl(text) ==
    LET pass == ConvertPass(text) IN
    IF pass.entries = <<>> THEN text ELSE StringifyAll(pass.entries)

----------------------------------------------------------------------------
(* Format classifier *)
CodexTypes ==
    {"session_meta", "response_item", "event_msg", "turn_context", "compacted", "message"}

NativeTypes ==
    {"user", "assistant", "system", "summary", "file-history-snapshot", "queue-operation"}

looksLikeCodexEntry(entry) ==
    IF Has(entry, "type") /\ entry.type \in CodexTypes THEN TRUE
    ELSE IF Has(entry, "type") /\ entry.type \in NativeTypes THEN FALSE
    ELSE IF Has(entry, "id") /\ Has(entry, "instructions") THEN TRUE
    ELSE IF getString(entry, "record_type") = "state" THEN TRUE
    ELSE FALSE

RECURSIVE FirstRecordFrom(_, _)
FirstRecordFrom(text, i) ==
    IF i > Len(text) THEN 0
    ELSE IF ~LineIsBlank(text[i]) /\ isRecordLine(text[i]) THEN i
    ELSE FirstRecordFrom(text, i + 1)

\* classification that never looks at the path
isLikelyCodexIgnoringPath(text, pathUnderCodexRoot) ==
    LET i == FirstRecordFrom(text, 1) IN
    IF i = 0 THEN FALSE ELSE looksLikeCodexEntry(text[i].o)

\* pathUnderCodexRoot: filePath starts with one of the Codex base directories
isLikelyCodexJsonl(text, pathUnderCodexRoot) ==
    IF pathUnderCodexRoot THEN TRUE
    ELSE LET i == FirstRecordFrom(text, 1) IN
         IF i = 0 THEN FALSE ELSE looksLikeCodexEntry(text[i].o)

normalizeConversationContent(text, pathUnderCodexRoot) ==
    IF ~isLikelyCodexJsonl(text, pathUnderCodexRoot) THEN text
    ELSE convertCodexJsonlToConversationJsonl(text)

----------------------------------------------------------------------------
(* Entry schema and validator *)
SYSTEM_LEVELS == {"info", "suggestion", "warning", "error"}

\* the text of a string-valued content field, UNDEF-like empty text otherwise
ContentString(entry) ==
    IF Has(entry, "content") /\ Has(entry.content, "str") THEN entry.content.str ELSE <<>>

getHookCommands(entry) ==
    IF ~Has(entry, "hookInfos") THEN <<>>
    ELSE LET withCommand == SelectSeq(entry.hookInfos, LAMBDA info : Has(info, "command"))
         IN [j \in 1..Len(withCommand) |-> withCommand[j].command]

buildStopHookSummaryContent(entry) ==
    LET commands == getHookCommands(entry)
        stopReason == IF Has(entry, "stopReason") THEN entry.stopReason ELSE <<>>
        parts ==
            << <<"Stop hook summary">> >>
            \o (IF Has(entry, "hookCount")
                THEN << <<ToString(entry.hookCount) \o " hook(s) executed">> >> ELSE <<>>)
            \o (IF Len(commands) > 0
                THEN << <<"Commands: ">> \o Join([j \in 1..Len(commands) |-> <<commands[j]>>],
                                                 <<", ">>) >>
                ELSE <<>>)
            \o (IF Has(entry, "preventedContinuation")
                THEN << <<"Prevented continuation: "
                          \o (IF entry.preventedContinuation THEN "yes" ELSE "no")>> >>
                ELSE <<>>)
            \o (IF trim(stopReason) # <<>> THEN << <<"Reason: ">> \o stopReason >> ELSE <<>>)
    IN Join(parts, <<". ">>)

buildHookProgressContent(data) ==
    LET parts ==
            << <<"Hook progress">> >>
            \o (IF Truthy(getString(data, "hookEvent"))
                THEN << <<"Event: " \o data.hookEvent>> >> ELSE <<>>)
            \o (IF Truthy(getString(data, "hookName"))
                THEN << <<"Hook: " \o data.hookName>> >> ELSE <<>>)
            \o (IF Truthy(getString(data, "command"))
                THEN << <<"Command: " \o data.command>> >> ELSE <<>>)
    IN Join(parts, <<". ">>)

\* buildBashProgressContent that reports the line count only
buildBashProgressLinesOnly(data) ==
    Join(<< <<"Bash progress">> >>
         \o (IF Has(data, "totalLines")
             THEN << <<"Lines: " \o ToString(data.totalLines)>> >> ELSE <<>>),
         <<". ">>)

buildBashProgressContent(data) ==
    LET out == IF Has(data, "output") THEN data.output ELSE <<>>
        parts ==
            << <<"Bash progress">> >>
            \o (IF Has(data, "elapsedTimeSeconds")
                THEN << <<"Elapsed: " \o ToString(data.elapsedTimeSeconds) \o "s">> >>
                ELSE <<>>)
            \o (IF Has(data, "totalLines")
                THEN << <<"Lines: " \o ToString(data.totalLines)>> >> ELSE <<>>)
            \o (IF trim(out) # <<>> THEN << <<"Output: ">> \o out >> ELSE <<>>)
    IN Join(parts, <<". ">>)

\* {...entry, f: v, ...}: the fields of over replace those of entry
Spread(entry, over) == over @@ entry

normalizeProgressEntry(entry) ==
    IF getString(entry, "type") # "progress" THEN entry
    ELSE LET data == IF Has(entry, "data") THEN entry.data ELSE EmptyRec
             dataType == getString(data, "type")
             text == IF dataType = "hook_progress" THEN buildHookProgressContent(data)
                     ELSE IF dataType = "bash_progress" THEN buildBashProgressContent(data)
                     ELSE <<"Progress update">>
         IN Spread(entry,
                [type |-> "system",
                 content |-> [str |-> text],
                 toolUseID |-> IF Has(entry, "toolUseID") THEN entry.toolUseID
                               ELSE IF Has(entry, "parentToolUseID") THEN entry.parentToolUseID
                               ELSE "progress-update",
                 level |-> "info",
                 parentUuid |-> IF Has(entry, "parentUuid") THEN entry.parentUuid ELSE NULL])

normalizeSystemEntry(entry) ==
    IF getString(entry, "type") # "system" THEN entry
    ELSE LET level == getString(entry, "level")
             n1 == Spread(entry, [level |-> IF Truthy(level) /\ level \in SYSTEM_LEVELS
                                            THEN level ELSE "info"])
             n2 == IF ~Truthy(getString(n1, "toolUseID"))
                   THEN Spread(n1, [toolUseID |-> IF Has(n1, "parentToolUseID")
                                                  THEN n1.parentToolUseID ELSE "system"])
                   ELSE n1
             subtype == getString(n2, "subtype")
             n3 == IF ContentString(n2) = <<>>
                   THEN Spread(n2, [content |-> [str |->
                            IF subtype = "stop_hook_summary" THEN buildStopHookSummaryContent(n2)
                            ELSE IF Truthy(subtype) THEN <<"System event: " \o subtype>>
                            ELSE <<"System event">>]])
                   ELSE n2
         IN Spread(n3, [parentUuid |-> IF Has(n3, "parentUuid") THEN n3.parentUuid ELSE NULL])

normalizeConversationEntry(entry) == normalizeSystemEntry(normalizeProgressEntry(entry))

\* z.object keeps the declared keys of a matching value and strips the others
Strip(entry, keys) == [f \in (DOMAIN entry) \cap keys |-> entry[f]]

BaseRequiredKeys == {"uuid", "sessionId", "cwd", "parentUuid", "isSidechain", "timestamp"}

BaseOptionalKeys == {"agentId", "isMeta", "userType", "version"}

BaseKeys == BaseRequiredKeys \cup BaseOptionalKeys

BaseEntrySchema(entry) == BaseRequiredKeys \subseteq DOMAIN entry

SystemKeys == BaseKeys \cup {"type", "content", "toolUseID", "level"}

SystemEntrySchema(entry) ==
    /\ BaseEntrySchema(entry)
    /\ getString(entry, "type") = "system"
    /\ Has(entry, "content") /\ Has(entry.content, "str")
    /\ Has(entry, "toolUseID")
    /\ getString(entry, "level") \in SYSTEM_LEVELS

UserItemTypes == {"text", "tool_result", "image", "document"}

AssistantItemTypes == {"text", "thinking", "tool_use", "tool_result"}

ItemsOfTypes(items, types) ==
    \A j \in 1..Len(items) : getString(items[j], "type") \in types

UserEntrySchema(entry) ==
    /\ BaseEntrySchema(entry)
    /\ getString(entry, "type") = "user"
    /\ Has(entry, "message") /\ Has(entry.message, "content")
    /\ getString(entry.message, "role") = "user"
    /\ \/ Has(entry.message.content, "str")
       \/ /\ Has(entry.message.content, "arr")
          /\ ItemsOfTypes(entry.message.content.arr, UserItemTypes)

AssistantEntrySchema(entry) ==
    /\ BaseEntrySchema(entry)
    /\ getString(entry, "type") = "assistant"
    /\ Has(entry, "message") /\ Has(entry.message, "content")
    /\ Has(entry.message.content, "arr")
    /\ ItemsOfTypes(entry.message.content.arr, AssistantItemTypes)

SummaryEntrySchema(entry) ==
    getString(entry, "type") = "summary" /\ Has(entry, "summary") /\ Has(entry, "leafUuid")

FileHistorySnapshotEntrySchema(entry) ==
    /\ getString(entry, "type") = "file-history-snapshot"
    /\ Has(entry, "messageId") /\ Has(entry, "snapshot") /\ Has(entry, "isSnapshotUpdate")

QueueOperationEntrySchema(entry) ==
    /\ getString(entry, "type") = "queue-operation"
    /\ Has(entry, "operation") /\ Has(entry, "sessionId") /\ Has(entry, "timestamp")

\* ConversationSchema.safeParse of a decoded object: the pre-pass, then the
\* first variant that matches
ConversationSchema(value) ==
    LET e == normalizeConversationEntry(value) IN
    IF UserEntrySchema(e)
    THEN [success |-> TRUE, data |-> Strip(e, BaseKeys \cup {"type", "message"})]
    ELSE IF AssistantEntrySchema(e)
    THEN [success |-> TRUE, data |-> Strip(e, BaseKeys \cup {"type", "message"})]
    ELSE IF SummaryEntrySchema(e)
    THEN [success |-> TRUE, data |-> Strip(e, {"type", "summary", "leafUuid"})]
    ELSE IF SystemEntrySchema(e)
    THEN [success |-> TRUE, data |-> Strip(e, SystemKeys)]
    ELSE IF FileHistorySnapshotEntrySchema(e)
    THEN [success |-> TRUE,
          data |-> Strip(e, {"type", "messageId", "snapshot", "isSnapshotUpdate"})]
    ELSE IF QueueOperationEntrySchema(e)
    THEN [success |-> TRUE,
          data |-> Strip(e, {"type", "operation", "sessionId", "timestamp", "content"})]
    ELSE [success |-> FALSE]

ErrorJsonl(line) == [type |-> "x-error", line |-> line]

\* JSON.parse(line) throws on text that is not JSON
JSONparseThrows(line) == line.k \in {"bad", "ws"}

\* the body of lines.map: try { parse, safeParse } catch { error variant }
ParseLine(line) ==
    IF JSONparseThrows(line) THEN ErrorJsonl(line)
    ELSE IF line.k = "scalar" THEN ErrorJsonl(line)
    ELSE LET result == ConversationSchema(line.o) IN
         IF result.success THEN result.data ELSE ErrorJsonl(line)

parseJsonlContentNoCatch(text) ==
    LET lines == NonBlank(text) IN
    IF \E j \in 1..Len(lines) : JSONparseThrows(lines[j])
    THEN [threw |-> TRUE, items |-> <<>>]
    ELSE [threw |-> FALSE, items |-> [j \in 1..Len(lines) |-> ParseLine(lines[j])]]

parseJsonlContent(text) ==
    LET lines == NonBlank(text) IN
    [threw |-> FALSE, items |-> [j \in 1..Len(lines) |-> ParseLine(lines[j])]]

----------------------------------------------------------------------------
(* The files the conversion pipeline is run on *)
Obj(o) == [k |-> "obj", o |-> o]

InputText(text) == [arr |-> <<[type |-> "input_text", text |-> text]>>]

BlankLine == [k |-> "ws", s |-> ""]

BadLine == [k |-> "bad", s |-> "not json at all"]

ScalarLine == [k |-> "scalar", s |-> "42"]

SessionMetaLine ==
    Obj([type |-> "session_meta", timestamp |-> "t1",
         payload |-> [id |-> "s1", cwd |-> "/repo/app"]])

UserMessageLine ==
    Obj([type |-> "response_item", timestamp |-> "t2",
         payload |-> [type |-> "message", role |-> "user",
                      content |-> InputText(<<" ", "fix the bug">>)]])

EmptyMessageLine ==
    Obj([type |-> "response_item", timestamp |-> "t3",
         payload |-> [type |-> "message", role |-> "user", content |-> InputText(<<" ">>)]])

AssistantMessageLine ==
    Obj([type |-> "response_item",
         payload |-> [type |-> "message", role |-> "assistant",
                      content |-> [arr |-> <<[type |-> "output_text", text |-> <<"done">>]>>]]])

WebSearchLine ==
    Obj([type |-> "response_item", timestamp |-> "t4",
         payload |-> [type |-> "web_search_call", status |-> "completed",
                      action |-> [query |-> "tla"]]])

EventUserLine ==
    Obj([type |-> "event_msg", timestamp |-> "t5",
         payload |-> [type |-> "user_message", message |-> <<"fix the bug">>]])

NativeBase(id) ==
    [uuid |-> id, sessionId |-> "s0", cwd |-> "/w/a", parentUuid |-> NULL,
     isSidechain |-> FALSE, timestamp |-> "t0", userType |-> "external", version |-> "1"]

NativeUserLine ==
    Obj(NativeBase("u1") @@ [type |-> "user",
                             message |-> [role |-> "user", content |-> [str |-> <<"hello">>]]])

NativeSystemLine ==
    Obj(NativeBase("u2") @@ [type |-> "system", subtype |-> "compact", gitBranch |-> "main"])

UnknownObjectLine == Obj([type |-> "foo"])

InstructionsLine == Obj([id |-> "r1", instructions |-> "be brief"])

StateLine == Obj([record_type |-> "state"])

SessionMetaNextLine ==
    Obj([type |-> "session_meta", timestamp |-> "t6",
         payload |-> [cwd |-> "/repo/next", cli_version |-> "0.9", model |-> "o3"]])

TurnContextLine ==
    Obj([type |-> "turn_context", timestamp |-> "t7",
         payload |-> [cwd |-> "/repo/other", model |-> "gpt-5"]])

MessageRecordLine ==
    Obj([type |-> "message", role |-> "user", timestamp |-> "t8",
         content |-> InputText(<<"fix the bug">>)])

WebSearchNoStatusLine ==
    Obj([type |-> "response_item", timestamp |-> "t9",
         payload |-> [type |-> "web_search_call", action |-> [query |-> "tlc"]]])

LinePool ==
    {BlankLine, BadLine, ScalarLine, SessionMetaLine, UserMessageLine, EmptyMessageLine,
     AssistantMessageLine, WebSearchLine, EventUserLine, NativeUserLine, NativeSystemLine,
     UnknownObjectLine, InstructionsLine, StateLine, SessionMetaNextLine, TurnContextLine,
     MessageRecordLine, WebSearchNoStatusLine}

SeqsUpTo(S, n) == UNION {[1..m -> S] : m \in 0..n}

----------------------------------------------------------------------------
(* Conversion and validation of one file: the extension normalises the     *)
(* text it read (readJsonlFile), the webview validates it line by line     *)
NoParse == [threw |-> FALSE, items |-> <<>>]

InitConv ==
    /\ content \in SeqsUpTo(LinePool, MaxLines)
    /\ underCodexRoot \in BOOLEAN
    /\ cpc = "read"
    /\ output = <<>>
    /\ outSrc = <<>>
    /\ parsed = NoParse

\* for each line of the returned text, the line of the file it stands for
SourceOfOutput(text, pathUnderCodexRoot) ==
    IF isLikelyCodexJsonl(text, pathUnderCodexRoot) /\ ConvertPass(text).entries # <<>>
    THEN ConvertPass(text).srcs
    ELSE [j \in 1..Len(text) |-> j]

Normalize ==
    /\ cpc = "read"
    /\ output' = normalizeConversationContent(content, underCodexRoot)
    /\ outSrc' = SourceOfOutput(content, underCodexRoot)
    /\ cpc' = "normalized"
    /\ UNCHANGED <<content, underCodexRoot, parsed>>
    /\ UNCHANGED <<valVars, toolVars, sideVars, scanVars, sumVars, readVars, viewVars, fdVars>>

Parse ==
    /\ cpc = "normalized"
    /\ parsed' = parseJsonlContent(output)
    /\ cpc' = "parsed"
    /\ UNCHANGED <<content, underCodexRoot, output, outSrc>>
    /\ UNCHANGED <<valVars, toolVars, sideVars, scanVars, sumVars, readVars, viewVars, fdVars>>

NextConv == Normalize \/ Parse

IdleConv ==
    /\ content = <<>> /\ underCodexRoot = FALSE /\ cpc = "idle"
    /\ output = <<>> /\ outSrc = <<>> /\ parsed = NoParse

----------------------------------------------------------------------------
(* Claims about conversion and validation *)
Converted ==
    isLikelyCodexJsonl(content, underCodexRoot) /\ ConvertPass(content).entries # <<>>

RECURSIVE NonBlankIdxFrom(_, _)
NonBlankIdxFrom(text, i) ==
    IF i > Len(text) THEN <<>>
    ELSE IF LineIsBlank(text[i]) THEN NonBlankIdxFrom(text, i + 1)
    ELSE <<i>> \o NonBlankIdxFrom(text, i + 1)

\* the source line of the j-th validated element
ItemSrc(j) == outSrc[NonBlankIdxFrom(output, 1)[j]]

OutcomesOf(i) == {j \in 1..Len(parsed.items) : ItemSrc(j) = i}

\* the record's renderable text normalises to the empty string
RenderableTextEmpty(line) ==
    /\ isRecordLine(line)
    /\ \/ /\ getString(line.o, "type") = "response_item"
          /\ Has(line.o, "payload")
          /\ getString(line.o.payload, "type") = "message"
          /\ extractCodexMessageText(line.o.payload) = <<>>
       \/ /\ getString(line.o, "type") = "message"
          /\ extractCodexMessageText(line.o) = <<>>

\* C1 (its last clause): in a foreign file, a line that is not valid JSON
\* ends up as an error entry, carrying the line, in the validated output.
C1_MalformedLineBecomesError ==
    (cpc = "parsed" /\ isLikelyCodexJsonl(content, underCodexRoot)) =>
        \A i \in 1..Len(content) :
            content[i].k = "bad" =>
                \E j \in OutcomesOf(i) : parsed.items[j] = ErrorJsonl(content[i])

\* C1: for every non-empty line of a foreign file, conversion followed by
\* validation yields exactly one outcome for that line (an entry or an error
\* entry carrying the line), except for lines whose renderable text is
\* empty; a line that is not valid JSON ends up as an error entry.
C1_ExactlyOneOutcomePerLine ==
    (cpc = "parsed" /\ isLikelyCodexJsonl(content, underCodexRoot)) =>
        \A i \in 1..Len(content) :
            ~LineIsBlank(content[i]) =>
                /\ \/ Cardinality(OutcomesOf(i)) = 1
                   \/ Cardinality(OutcomesOf(i)) = 0 /\ RenderableTextEmpty(content[i])
                /\ content[i].k = "bad" =>
                       \E j \in OutcomesOf(i) : parsed.items[j] = ErrorJsonl(content[i])

VariantTypes ==
    {"user", "assistant", "summary", "system", "file-history-snapshot", "queue-operation"}

\* C2: parseJsonlContent never throws and returns, in line order, exactly one
\* element per non-empty line: a validated entry of a declared variant, or the
\* error variant holding the line verbatim; lines that are not JSON, JSON
\* values that are not objects and objects of no variant give the error variant.
C2_ParseTotalOnePerLine ==
    cpc = "parsed" =>
        LET lines == NonBlank(output) IN
        /\ ~parsed.threw
        /\ Len(parsed.items) = Len(lines)
        /\ \A j \in 1..Len(lines) :
               IF \/ lines[j].k # "obj"
                  \/ getString(lines[j].o, "type") \notin VariantTypes \cup {"progress"}
               THEN parsed.items[j] = ErrorJsonl(lines[j])
               ELSE \/ parsed.items[j] = ErrorJsonl(lines[j])
                    \/ /\ parsed.items[j].type \in VariantTypes
                       /\ Has(lines[j].o, "uuid") => parsed.items[j].uuid = lines[j].o.uuid

C2_Witness ==
    /\ cpc = "parsed"
    /\ Len(parsed.items) = 3
    /\ parsed.items[1] = ErrorJsonl(BadLine)
    /\ parsed.items[2].type = "system"
    /\ parsed.items[3] = ErrorJsonl(UnknownObjectLine)

\* C3: the converter's output keeps the order of the source lines: an entry
\* emitted for an earlier line precedes every entry emitted for a later line,
\* each entry carrying the timestamp of the line it was emitted for.
C3_OrderPreserved ==
    (cpc # "read" /\ Converted) =>
        /\ Len(output) = Len(outSrc)
        /\ \A a \in 1..Len(output) :
               /\ ~LineIsBlank(content[outSrc[a]])
               /\ output[a].o.timestamp = normalizeTimestamp(content[outSrc[a]].o)
        /\ \A a, b \in 1..Len(output) : outSrc[a] < outSrc[b] => a < b

C3_Witness ==
    /\ cpc = "normalized"
    /\ Converted
    /\ \E a \in 1..(Len(output) - 1) : outSrc[a + 1] > outSrc[a] + 1

\* C4: when the converter produces no entry from a file classified foreign,
\* normalizeConversationContent returns its input text unchanged, blank
\* lines and trailing newline included.
C4_NoEntriesReturnsInput ==
    (cpc # "read" /\ isLikelyCodexJsonl(content, underCodexRoot)
                  /\ ConvertPass(content).entries = <<>>) =>
        output = content

C4_Witness ==
    /\ cpc = "normalized"
    /\ isLikelyCodexJsonl(content, underCodexRoot)
    /\ ConvertPass(content).entries = <<>>
    /\ Len(content) = 3
    /\ content[1] = SessionMetaLine
    /\ content[2] = EmptyMessageLine
    /\ content[3] = BlankLine
    /\ output = content

----------------------------------------------------------------------------
(* Claims about classification *)
\* the line carries a discriminator of the foreign schema
ForeignSignal(line) ==
    /\ line.k = "obj"
    /\ \/ Has(line.o, "type") /\ line.o.type \in CodexTypes
       \/ /\ ~(Has(line.o, "type") /\ line.o.type \in NativeTypes)
          /\ \/ Has(line.o, "id") /\ Has(line.o, "instructions")
             \/ Has(line.o, "record_type") /\ line.o.record_type = "state"

FirstIndex(text, P(_)) ==
    LET hits == {i \in 1..Len(text) : P(text[i])}
    IN IF hits = {} THEN 0 ELSE CHOOSE i \in hits : \A j \in hits : i <= j

\* JSON.parse succeeds on the line
Parseable(line) == line.k \in {"scalar", "obj"}

ClassifiedBy(text, pathUnderCodexRoot, P(_)) ==
    IF pathUnderCodexRoot THEN TRUE
    ELSE LET i == FirstIndex(text, P)
         IN IF i = 0 THEN FALSE ELSE ForeignSignal(text[i])

Normalized == cpc \in {"normalized", "parsed"}

----------------------------------------------------------------------------
(* Claims about the converter's session context and pairing *)

IsContextRecord(line) ==
    /\ isRecordLine(line)
    /\ getString(line.o, "type") \in {"session_meta", "turn_context"}
    /\ Has(line.o, "payload")

\* the indexes up to `upto` of the records that supply a non-empty `field`
Suppliers(text, upto, field) ==
    {i \in 1..upto : IsContextRecord(text[i]) /\ Truthy(getString(text[i].o.payload, field))}

\* the most recent non-empty value of `field` among the first `upto` lines
LatestSupplied(text, upto, field, initial) ==
    IF Suppliers(text, upto, field) = {} THEN initial
    ELSE LET i == CHOOSE j \in Suppliers(text, upto, field) :
                      \A k \in Suppliers(text, upto, field) : k <= j
         IN text[i].o.payload[field]

\* C18: every non-empty cwd, model or version value that a session-metadata
\* or turn-context record supplies overwrites the value held, so each entry
\* emitted after such a record carries the most recent non-empty value seen
\* before it.
C18_LatestContextValueCarried ==
    (cpc # "read" /\ Converted) =>
        \A a \in 1..Len(output) :
            LET entry == output[a].o IN
            /\ entry.cwd = LatestSupplied(content, outSrc[a], "cwd", InitialContext.cwd)
            /\ entry.version =
                   LatestSupplied(content, outSrc[a], "cli_version", InitialContext.version)
            /\ Has(entry.message, "model") =>
                   entry.message.model =
                       LatestSupplied(content, outSrc[a], "model", InitialContext.model)

\* the part the code keeps: model and version follow the most recent value
LatestModelAndVersionCarried ==
    (cpc # "read" /\ Converted) =>
        \A a \in 1..Len(output) :
            LET entry == output[a].o IN
            /\ entry.version =
                   LatestSupplied(content, outSrc[a], "cli_version", InitialContext.version)
            /\ Has(entry.message, "model") =>
                   entry.message.model =
                       LatestSupplied(content, outSrc[a], "model", InitialContext.model)

\* a message record: a response item whose payload is a message, or a record
\* whose own type is message
IsMessageRecord(line) ==
    /\ isRecordLine(line)
    /\ \/ /\ getString(line.o, "type") = "response_item"
          /\ Has(line.o, "payload")
          /\ getString(line.o.payload, "type") = "message"
       \/ getString(line.o, "type") = "message"

IsEventRecord(line) == isRecordLine(line) /\ getString(line.o, "type") = "event_msg"

\* C19: in a file that contains message records no event-style record emits
\* an entry.
C19_EventsYieldToMessages ==
    (cpc # "read" /\ Converted /\ \E i \in 1..Len(content) : IsMessageRecord(content[i])) =>
        \A a \in 1..Len(output) : ~IsEventRecord(content[outSrc[a]])

\* the part the code keeps: response-item messages silence the event records
EventsYieldToResponseMessages ==
    (cpc # "read" /\ Converted /\ hasResponseMessagesIn(content)) =>
        \A a \in 1..Len(output) : ~IsEventRecord(content[outSrc[a]])

IsWebSearchCall(line) ==
    /\ isRecordLine(line)
    /\ getString(line.o, "type") = "response_item"
    /\ Has(line.o, "payload")
    /\ getString(line.o.payload, "type") = "web_search_call"

\* entries a and a + 1 are the invocation and the result emitted for line i
WebSearchPairAt(a, i) ==
    /\ a + 1 <= Len(output)
    /\ outSrc[a] = i /\ outSrc[a + 1] = i
    /\ output[a].o.type = "assistant"
    /\ Len(output[a].o.message.content.arr) = 1
    /\ output[a].o.message.content.arr[1].type = "tool_use"
    /\ output[a + 1].o.type = "user"
    /\ Len(output[a + 1].o.message.content.arr) = 1
    /\ output[a + 1].o.message.content.arr[1].type = "tool_result"
    /\ output[a + 1].o.message.content.arr[1].tool_use_id =
           output[a].o.message.content.arr[1].id
    /\ Has(content[i].o.payload, "status") =>
           output[a + 1].o.message.content.arr[1].content.str =
               <<"status: " \o content[i].o.payload.status>>
    /\ \A b \in 1..Len(output) :
           (b # a /\ Has(output[b].o.message.content, "arr")) =>
               \A item \in 1..Len(output[b].o.message.content.arr) :
                   LET it == output[b].o.message.content.arr[item]
                   IN it.type = "tool_use" => it.id # output[a].o.message.content.arr[1].id

\* C20: every web-search call record is converted into an assistant entry
\* with one tool-invocation item, followed at once by a user entry with one
\* tool-result item that carries the call's status and names the invocation's
\* freshly generated id.
C20_WebSearchPaired ==
    (cpc # "read" /\ Converted) =>
        \A i \in 1..Len(content) :
            IsWebSearchCall(content[i]) => \E a \in 1..Len(output) : WebSearchPairAt(a, i)

\* the part the code keeps: a call that has a status is paired
WebSearchWithStatusPaired ==
    (cpc # "read" /\ Converted) =>
        \A i \in 1..Len(content) :
            (IsWebSearchCall(content[i]) /\ Has(content[i].o.payload, "status")) =>
                \E a \in 1..Len(output) : WebSearchPairAt(a, i)

----------------------------------------------------------------------------
(* Validation of a decoded value, and of the entry it validated to *)
Opt(f, val) == IF val = UNDEF THEN EmptyRec ELSE [x \in {f} |-> val]

OptText(f, val) == IF val = <<UNDEF>> THEN EmptyRec ELSE [x \in {f} |-> [str |-> val]]

BashData == [type |-> "bash_progress", elapsedTimeSeconds |-> 3, totalLines |-> 10]

HookData == [type |-> "hook_progress", hookEvent |-> "Stop", command |-> "lint"]

BashOutputData ==
    [type |-> "bash_progress", elapsedTimeSeconds |-> 0, output |-> <<"ok", "\n", "done">>]

BashBlankData == [type |-> "bash_progress", totalLines |-> 7, output |-> <<" ", "\n">>]

DataPool ==
    {EmptyRec, BashData, BashOutputData, BashBlankData, [type |-> "bash_progress"], HookData,
     [type |-> "hook_progress"], [type |-> "agent_progress"]}

NoDataProgress == NativeBase("u8") @@ [type |-> "progress"]

SystemLikeValues ==
    {   (IF hasUuid THEN NativeBase("u9") ELSE Strip(NativeBase("u9"), {"sessionId", "cwd"}))
        @@ Opt("level", level) @@ Opt("toolUseID", toolUseID)
        @@ Opt("parentToolUseID", parentToolUseID) @@ OptText("content", text)
        @@ Opt("subtype", subtype)
        @@ [type |-> "system", hookCount |-> 2, preventedContinuation |-> FALSE]
      : hasUuid \in BOOLEAN,
        level \in {UNDEF, "warning", "fatal"},
        toolUseID \in {UNDEF, "", "toolu_1"},
        parentToolUseID \in {UNDEF, "", "toolu_0"},
        text \in {<<UNDEF>>, <<>>, <<"Conversation compacted">>},
        subtype \in {UNDEF, "stop_hook_summary", "compact_boundary"} }

ProgressValues ==
    {   Strip(NativeBase("u8"), BaseKeys \ (IF hasParent THEN {} ELSE {"parentUuid"}))
        @@ Opt("toolUseID", toolUseID) @@ Opt("parentToolUseID", parentToolUseID)
        @@ [type |-> "progress", data |-> data]
      : hasParent \in BOOLEAN,
        toolUseID \in {UNDEF, "", "toolu_1"},
        parentToolUseID \in {UNDEF, "", "toolu_0"},
        data \in DataPool }

DecodedValues ==
    SystemLikeValues \cup ProgressValues
    \cup {NativeUserLine.o, UnknownObjectLine.o, UserMessageLine.o, NoDataProgress}

NoResult == [success |-> FALSE]

InitVal ==
    /\ decoded \in DecodedValues
    /\ first = NoResult
    /\ second = NoResult
    /\ vpc = "decoded"

IdleVal ==
    decoded = EmptyRec /\ first = NoResult /\ second = NoResult /\ vpc = "idle"

Validate ==
    /\ vpc = "decoded"
    /\ first' = ConversationSchema(decoded)
    /\ vpc' = "validated"
    /\ UNCHANGED <<decoded, second>>
    /\ UNCHANGED <<convVars, toolVars, sideVars, scanVars, sumVars, readVars, viewVars, fdVars>>

Revalidate ==
    /\ vpc = "validated"
    /\ first.success
    /\ second' = ConversationSchema(first.data)
    /\ vpc' = "revalidated"
    /\ UNCHANGED <<decoded, first>>
    /\ UNCHANGED <<convVars, toolVars, sideVars, scanVars, sumVars, readVars, viewVars, fdVars>>

NextVal == Validate \/ Revalidate

\* C10 (its second clause): the normalisation pre-pass is idempotent.
C10_NormalizeIdempotent ==
    vpc # "idle" =>
        normalizeConversationEntry(normalizeConversationEntry(decoded))
            = normalizeConversationEntry(decoded)

\* C10: validation is idempotent: validating the entry a decoded validated to
\* yields an entry equal to it, and the normalisation pre-pass satisfies
\* normalize(normalize(v)) = normalize(v).
C10_ValidationIdempotent ==
    /\ vpc = "revalidated" => (second.success /\ second.data = first.data)
    /\ C10_NormalizeIdempotent

----------------------------------------------------------------------------
(* Tool correlator *)
RECURSIVE Flatten(_)
Flatten(seqs) == IF seqs = <<>> THEN <<>> ELSE Head(seqs) \o Flatten(Tail(seqs))

MapSet(m, k, val) == [x \in (DOMAIN m) \cup {k} |-> IF x = k THEN val ELSE m[x]]

\* the tool_use items the first pass visits in one entry
ToolUsesOf(conv) ==
    IF conv.type = "x-error" THEN <<>>
    ELSE IF conv.type # "assistant" THEN <<>>
    ELSE IF ~Has(conv.message.content, "arr") THEN <<>>
    ELSE SelectSeq(conv.message.content.arr, LAMBDA item : getString(item, "type") = "tool_use")

\* the tool_result items the second pass visits in one entry
ToolResultsOf(conv) ==
    IF conv.type = "x-error" THEN <<>>
    ELSE IF conv.type # "user" THEN <<>>
    ELSE IF Has(conv.message.content, "str") THEN <<>>
    ELSE SelectSeq(conv.message.content.arr,
                   LAMBDA item : getString(item, "type") = "tool_result")

RECURSIVE CollectToolNames(_, _)
CollectToolNames(toolNames, items) ==
    IF items = <<>> THEN toolNames
    ELSE CollectToolNames(MapSet(toolNames, Head(items).id, Head(items).name), Tail(items))

RECURSIVE CollectToolResults(_, _, _)
CollectToolResults(map, items, toolNames) ==
    IF items = <<>> THEN map
    ELSE LET item == Head(items)
             found == IF item.tool_use_id \in DOMAIN toolNames
                      THEN toolNames[item.tool_use_id] ELSE ""
             toolName == IF found # "" THEN found ELSE "unknown"
         IN CollectToolResults(MapSet(map, item.tool_use_id,
                                      [toolName |-> toolName, result |-> item]),
                               Tail(items), toolNames)

buildToolResultMap(convs) ==
    LET toolNames ==
            CollectToolNames(EmptyRec,
                Flatten([c \in 1..Len(convs) |-> ToolUsesOf(convs[c])]))
    IN CollectToolResults(EmptyRec,
           Flatten([c \in 1..Len(convs) |-> ToolResultsOf(convs[c])]), toolNames)

ToolUse(id, name) == [type |-> "tool_use", id |-> id, name |-> name, input |-> EmptyRec]

ToolResult(id, out) ==
    [type |-> "tool_result", tool_use_id |-> id, content |-> [str |-> <<out>>]]

AssistantWith(items) ==
    [type |-> "assistant", uuid |-> "a", message |-> [role |-> "assistant",
                                                      content |-> [arr |-> items]]]

UserWith(msgContent) ==
    [type |-> "user", uuid |-> "u", message |-> [role |-> "user", content |-> msgContent]]

EntryPool ==
    {AssistantWith(<<ToolUse("tool_1", "Bash")>>),
     AssistantWith(<<ToolUse("tool_1", "Read")>>),
     AssistantWith(<<ToolUse("tool_1", "")>>),
     AssistantWith(<<[type |-> "text", text |-> <<"ok">>], ToolUse("tool_9", "Grep")>>),
     UserWith([arr |-> <<ToolResult("tool_1", "ok")>>]),
     UserWith([arr |-> <<ToolResult("tool_1", "failed")>>]),
     UserWith([arr |-> <<[type |-> "text", text |-> <<"see">>], ToolResult("tool_9", "ok")>>]),
     UserWith([str |-> <<"hello">>]),
     ErrorJsonl(BadLine),
     [type |-> "summary", summary |-> "s", leafUuid |-> "l"]}

InitTool ==
    /\ conversations \in SeqsUpTo(EntryPool, MaxConv)
    /\ toolMap = EmptyRec
    /\ tpc = "loaded"

IdleTool == conversations = <<>> /\ toolMap = EmptyRec /\ tpc = "idle"

BuildMap ==
    /\ tpc = "loaded"
    /\ toolMap' = buildToolResultMap(conversations)
    /\ tpc' = "built"
    /\ UNCHANGED conversations
    /\ UNCHANGED <<convVars, valVars, sideVars, scanVars, sumVars, readVars, viewVars, fdVars>>

NextTool == BuildMap

AllToolUses == Flatten([c \in 1..Len(conversations) |-> ToolUsesOf(conversations[c])])

AllToolResults == Flatten([c \in 1..Len(conversations) |-> ToolResultsOf(conversations[c])])

UseNamesOf(id) == {AllToolUses[a].name : a \in {b \in 1..Len(AllToolUses) : AllToolUses[b].id = id}}

\* C9: every tool_result item of a user entry is the result stored under its
\* id, with the name of the tool_use item of that id, if there is one anywhere
\* in the sequence, and "unknown" otherwise.
C9_EveryResultKeptWithName ==
    tpc = "built" =>
        \A r \in 1..Len(AllToolResults) :
            LET item == AllToolResults[r]
                id == item.tool_use_id
            IN /\ id \in DOMAIN toolMap
               /\ toolMap[id].result = item
               /\ IF UseNamesOf(id) # {} THEN toolMap[id].toolName \in UseNamesOf(id)
                  ELSE toolMap[id].toolName = "unknown"

----------------------------------------------------------------------------
(* Preview extraction *)

\* String.length of a text
RECURSIVE CharLength(_)
CharLength(text) == IF text = <<>> THEN 0 ELSE Len(Head(text)) + CharLength(Tail(text))

\* the characters of a text as one string
RECURSIVE Chars(_)
Chars(text) == IF text = <<>> THEN "" ELSE Head(text) \o Chars(Tail(text))

\* text.replace(/\n+/g, ' ').replace(/\s+/g, ' ')
RECURSIVE CollapseWhitespace(_)
CollapseWhitespace(text) ==
    IF text = <<>> THEN <<>>
    ELSE IF Head(text) \in WS THEN <<" ">> \o CollapseWhitespace(TrimStart(text))
    ELSE <<Head(text)>> \o CollapseWhitespace(Tail(text))

normalizeSummaryCandidate(text) == trim(CollapseWhitespace(text))

\* slice that keeps the whole text
SliceAll(text, n) == text

\* text.slice(0, n)
RECURSIVE Slice(_, _)
Slice(text, n) ==
    IF text = <<>> \/ n = 0 THEN <<>>
    ELSE IF Len(Head(text)) <= n THEN <<Head(text)>> \o Slice(Tail(text), n - Len(Head(text)))
    ELSE <<SubSeq(Head(text), 1, n)>>

NoCandidate == [t |-> "null"]

StringCandidate(text) == [t |-> "string", s |-> text]

RECURSIVE FirstTextBlock(_)
FirstTextBlock(blocks) ==
    IF blocks = <<>> THEN NoCandidate
    ELSE IF getString(Head(blocks), "type") = "text" /\ Has(Head(blocks), "text")
         THEN StringCandidate(Head(blocks).text)
    ELSE FirstTextBlock(Tail(blocks))

extractClaudeSummaryCandidate(entry) ==
    IF getString(entry, "type") # "user" THEN NoCandidate
    ELSE IF ~Has(entry, "message") THEN NoCandidate
    ELSE IF ~Has(entry.message, "content") THEN NoCandidate
    ELSE IF Has(entry.message.content, "str") THEN StringCandidate(entry.message.content.str)
    ELSE FirstTextBlock(entry.message.content.arr)

extractCodexSummaryCandidates(entry) ==
    IF getString(entry, "type") = "response_item"
    THEN IF ~Has(entry, "payload") THEN <<>>
         ELSE IF getString(entry.payload, "type") = "message"
                 /\ getString(entry.payload, "role") = "user"
                 /\ extractCodexMessageText(entry.payload) # <<>>
              THEN <<extractCodexMessageText(entry.payload)>>
         ELSE <<>>
    ELSE IF getString(entry, "type") = "message" /\ getString(entry, "role") = "user"
    THEN IF extractCodexMessageText(entry) # <<>> THEN <<extractCodexMessageText(entry)>>
         ELSE <<>>
    ELSE IF getString(entry, "type") = "event_msg"
    THEN IF ~Has(entry, "payload") THEN <<>>
         ELSE IF getString(entry.payload, "type") = "user_message" /\ Has(entry.payload, "message")
              THEN <<entry.payload.message>>
         ELSE <<>>
    ELSE <<>>

\* the cleaned candidates of one record that pass the two tests of
\* extractSummary, in the order the function tries them
PassingCandidates(entry) ==
    LET claudeCandidate == extractClaudeSummaryCandidate(entry)
        claude == IF claudeCandidate.t = "string" /\ claudeCandidate.s # <<>>
                  THEN <<normalizeSummaryCandidate(claudeCandidate.s)>>
                  ELSE <<>>
        codex == [i \in 1..Len(extractCodexSummaryCandidates(entry)) |->
                     normalizeSummaryCandidate(extractCodexSummaryCandidates(entry)[i])]
    IN SelectSeq(claude \o codex, LAMBDA cleaned : cleaned # <<>> /\ ~isMetaConversationText(cleaned))

\* extractSummary over the lines from index i on; examined is the index of the
\* last line the loop looked at
RECURSIVE ExtractFrom(_, _)
ExtractFrom(lines, i) ==
    IF i > Len(lines) THEN [summary |-> <<>>, examined |-> Len(lines)]
    ELSE IF LineIsBlank(lines[i]) THEN ExtractFrom(lines, i + 1)
    ELSE IF ~isRecordLine(lines[i]) THEN ExtractFrom(lines, i + 1)
    ELSE IF PassingCandidates(lines[i].o) # <<>>
         THEN [summary |-> Slice(Head(PassingCandidates(lines[i].o)), 100), examined |-> i]
    ELSE ExtractFrom(lines, i + 1)

extractSummary(text) == ExtractFrom(text, 1)

(* The chunks previews are extracted from *)
Word48 == "abcdefghijklmnopqrstuvwxyzabcdefghijklmnopqrstuv"

LongText == <<Word48, "\n", "\n", Word48, " ", " ", "tail">>

SpacedText == <<"\n", "Fix", " ", "\n", "the", " ", " ", "bug", " ">>

NativeLongLine ==
    Obj(NativeBase("u3") @@ [type |-> "user",
                             message |-> [role |-> "user", content |-> [str |-> LongText]]])

NativeCommandLine ==
    Obj(NativeBase("u4") @@ [type |-> "user",
                             message |-> [role |-> "user",
                                          content |-> [str |-> <<" ", "<command", "-name>clear">>]]])

NativeBlocksLine ==
    Obj(NativeBase("u5") @@ [type |-> "user",
                             message |-> [role |-> "user",
                                          content |-> [arr |-> <<[type |-> "image"],
                                                                 [type |-> "text", text |-> SpacedText],
                                                                 [type |-> "text", text |-> <<"later">>]>>]]])

NativeToolEchoLine ==
    Obj(NativeBase("u6") @@ [type |-> "user",
                             message |-> [role |-> "user",
                                          content |-> [arr |-> <<[type |-> "text",
                                                                  text |-> <<"see", " ", "tool_use_id">>],
                                                                 [type |-> "text", text |-> <<"real">>]>>]]])

NativeBlankTextLine ==
    Obj(NativeBase("u7") @@ [type |-> "user",
                             message |-> [role |-> "user", content |-> [str |-> <<" ", "\n">>]]])

TopLevelMessageLine ==
    Obj([type |-> "message", role |-> "user", content |-> InputText(<<"top level">>)])

ContextMessageLine ==
    Obj([type |-> "response_item",
         payload |-> [type |-> "message", role |-> "user",
                      content |-> InputText(<<"<environment_context", ">">>)]])

EventEmptyLine ==
    Obj([type |-> "event_msg", payload |-> [type |-> "user_message", message |-> <<>>]])

ChunkLinePool ==
    {BlankLine, BadLine, ScalarLine, NativeUserLine, NativeSystemLine, NativeLongLine,
     NativeCommandLine, NativeBlocksLine, NativeToolEchoLine, NativeBlankTextLine,
     UserMessageLine, AssistantMessageLine, TopLevelMessageLine, ContextMessageLine,
     EventUserLine, EventEmptyLine}

NotExtracted == [done |-> FALSE, summary |-> <<>>, examined |-> 0]

InitSummary ==
    /\ chunk \in UNION {[1..n -> ChunkLinePool] : n \in 0..MaxLines}
    /\ extracted = NotExtracted

IdleSummary ==
    /\ chunk = <<>>
    /\ extracted = NotExtracted

\* loadFileSummary hands the chunk it read to extractSummary
ExtractSummary ==
    /\ ~extracted.done
    /\ extracted' = [done |-> TRUE, summary |-> extractSummary(chunk).summary,
                     examined |-> extractSummary(chunk).examined]
    /\ UNCHANGED chunk
    /\ UNCHANGED <<convVars, valVars, toolVars, sideVars, scanVars, readVars, viewVars, fdVars>>

NextSummary == ExtractSummary

\* the candidate texts of a line, in the order they are tried; none for a line
\* that is blank, unparseable or not a JSON object
CandidatesOfLine(line) ==
    IF ~isRecordLine(line) THEN <<>>
    ELSE (IF extractClaudeSummaryCandidate(line.o).t = "string"
          THEN <<extractClaudeSummaryCandidate(line.o).s>> ELSE <<>>)
         \o extractCodexSummaryCandidates(line.o)

\* a candidate is accepted when its whitespace-collapsed text is non-empty and
\* does not match the meta-content heuristic
AcceptedCandidate(text) ==
    /\ normalizeSummaryCandidate(text) # <<>>
    /\ ~isMetaConversationText(normalizeSummaryCandidate(text))

AcceptedOfLine(line) == SelectSeq(CandidatesOfLine(line), AcceptedCandidate)

AcceptingLines(text) == {i \in 1..Len(text) : AcceptedOfLine(text[i]) # <<>>}

HasWhitespaceRun(text) == \E i \in 1..(Len(text) - 1) : text[i] \in WS /\ text[i + 1] \in WS

\* C13: extractSummary returns the whitespace-collapsed text of the first
\* accepted candidate in line order, cut to its first 100 characters; the scan
\* passes over unparseable lines and rejected candidates, stops at the line of
\* the first accepted candidate, and returns the empty string when no
\* candidate is accepted.
C13_FirstAcceptedCandidate ==
    extracted.done =>
        IF AcceptingLines(chunk) = {}
        THEN extracted.summary = <<>> /\ extracted.examined = Len(chunk)
        ELSE LET i == CHOOSE j \in AcceptingLines(chunk) :
                          \A k \in AcceptingLines(chunk) : j <= k
                 cleaned == normalizeSummaryCandidate(Head(AcceptedOfLine(chunk[i])))
                 kept == IF CharLength(cleaned) <= 100 THEN CharLength(cleaned) ELSE 100
             IN /\ extracted.examined = i
                /\ ~HasWhitespaceRun(cleaned)
                /\ CharLength(extracted.summary) = kept
                /\ Chars(extracted.summary) = SubSeq(Chars(cleaned), 1, kept)

\* a rejected candidate came first, the accepted candidate was longer than
\* 100 characters, and a line with a candidate of its own followed it
C13_Witness ==
    /\ extracted.done
    /\ chunk = <<NativeCommandLine, NativeLongLine, NativeUserLine>>
    /\ extracted.examined = 2
    /\ CharLength(extracted.summary) = 100
    /\ extracted.summary = <<Word48, " ", Word48, " ", "ta">>

----------------------------------------------------------------------------
(* Progress records in the normalisation pre-pass *)

\* ". label: value" when the part is there, nothing otherwise
ProgressPart(there, label, shown) == IF there THEN ". " \o label \o ": " \o shown ELSE ""

\* the sentence the claim states for a progress record's nested data
ProgressSentence(data) ==
    IF getString(data, "type") = "bash_progress"
    THEN "Bash progress"
         \o ProgressPart(Has(data, "elapsedTimeSeconds"), "Elapsed",
                         IF Has(data, "elapsedTimeSeconds")
                         THEN ToString(data.elapsedTimeSeconds) \o "s" ELSE "")
         \o ProgressPart(Has(data, "totalLines"), "Lines",
                         IF Has(data, "totalLines") THEN ToString(data.totalLines) ELSE "")
         \o ProgressPart(Has(data, "output") /\ trim(data.output) # <<>>, "Output",
                         IF Has(data, "output") THEN Chars(data.output) ELSE "")
    ELSE IF getString(data, "type") = "hook_progress"
    THEN "Hook progress"
         \o ProgressPart(Truthy(getString(data, "hookEvent")), "Event", getString(data, "hookEvent"))
         \o ProgressPart(Truthy(getString(data, "hookName")), "Hook", getString(data, "hookName"))
         \o ProgressPart(Truthy(getString(data, "command")), "Command", getString(data, "command"))
    ELSE "Progress update"

IsInfoSystemEntry(entry, sentence) ==
    /\ entry.type = "system"
    /\ entry.level = "info"
    /\ Has(entry.content, "str")
    /\ Chars(entry.content.str) = sentence

\* C17: the pre-pass rewrites every record of type "progress" into a system
\* entry with level "info" whose content is, for bash_progress, "Bash
\* progress" followed by the Elapsed, Lines and Output parts that are there,
\* joined by ". "; for hook_progress the hook-progress sentence; and for any
\* other or missing data type "Progress update".  The validated entry carries
\* the same type, level and content.
C17_ProgressBecomesSystemInfo ==
    (vpc # "decoded" /\ vpc # "idle" /\ getString(decoded, "type") = "progress") =>
        LET sentence == ProgressSentence(IF Has(decoded, "data") THEN decoded.data ELSE EmptyRec)
        IN /\ IsInfoSystemEntry(normalizeConversationEntry(decoded), sentence)
           /\ first.success
           /\ IsInfoSystemEntry(first.data, sentence)

\* the record with elapsed 3 and totalLines 10 was validated
C17_Witness ==
    /\ vpc = "validated"
    /\ getString(decoded, "type") = "progress"
    /\ Has(decoded, "data")
    /\ decoded.data = [type |-> "bash_progress", elapsedTimeSeconds |-> 3, totalLines |-> 10]
    /\ first.success
    /\ first.data.type = "system"
    /\ first.data.level = "info"
    /\ Chars(first.data.content.str) = "Bash progress. Elapsed: 3s. Lines: 10"

----------------------------------------------------------------------------
(* Sidebar provider: refresh and its callers *)
FolderNames == {"-w-a", "-w-b"}

\* the mappings a scan can resolve to, as the folder names in Map order
ScanResults == {<<>>, <<"-w-a">>, <<"-w-b">>, <<"-w-a", "-w-b">>, <<"-w-b", "-w-a">>}

WorkspacePaths == {NULL, "/w/a", "/w/b"}

RemoveAt(seq, i) == SubSeq(seq, 1, i - 1) \o SubSeq(seq, i + 1, Len(seq))

RECURSIVE SkipLoaded(_, _)
SkipLoaded(rest, loaded) ==
    IF rest = <<>> THEN <<>>
    ELSE IF Head(rest) \in loaded THEN SkipLoaded(Tail(rest), loaded)
    ELSE rest

\* the files a scan lists in each group
FilesOf(folder) == IF folder = "-w-a" THEN {"a1.jsonl", "a2.jsonl"} ELSE {"b1.jsonl"}

\* the previews extractSummary can return for a chunk
Previews == {"", "Fix the login bug"}

\* what has happened so far: clearedAt is the number of refresh calls made
\* when the cache was last cleared (-1: never), deferred tells that a call was
\* turned away since the last scan started
NoHistory == [clearedAt |-> -1, deferred |-> FALSE]

\* no later call has returned yet
NoReturn == [key |-> [id |-> 0, file |-> ""], value |-> UNDEF]

\* a file record as a scan creates it; pending counts the reads in flight for
\* it, reads and writes count the chunk reads started and the assignments to
\* its summary field
ScannedRecords(id, result) ==
    [key \in {[id |-> id, file |-> f] :
                 f \in UNION {FilesOf(result[j]) : j \in 1..Len(result)}} |->
        [summary |-> NULL, pending |-> 0, reads |-> 0, writes |-> 0]]

\* the records still referenced once task i has replaced the mapping held:
\* those of the mappings other running tasks iterate
HeldRecords(i) ==
    LET held == {tasks[j].id : j \in (1..Len(tasks)) \ {i}}
        keys == {key \in DOMAIN fileRecords : key.id \in held}
    IN [key \in keys |-> fileRecords[key]]

FolderKeys(records, id, folder) ==
    {key \in DOMAIN records : key.id = id /\ key.file \in FilesOf(folder)}

\* loadFileSummary that always reads the file
loadFileSummaryNoCache(file) ==
    [file |-> [file EXCEPT !.pending = @ + 1, !.reads = @ + 1], returns |-> UNDEF]

\* loadFileSummary up to its await: the record afterwards, and the value
\* returned when it returns without awaiting
loadFileSummary(file) ==
    IF file.summary # NULL
    THEN [file |-> file, returns |-> file.summary]
    ELSE [file |-> [file EXCEPT !.pending = @ + 1, !.reads = @ + 1], returns |-> UNDEF]

\* file.summary = summary, or file.summary = '' in the catch block
StoreSummary(file, summary) ==
    [file EXCEPT !.summary = summary, !.pending = @ - 1, !.writes = @ + 1]

\* loadFolderSummaries up to its await: one loadFileSummary call per file
loadFolderSummaries(records, id, folder) ==
    [key \in DOMAIN records |->
        IF key \in FolderKeys(records, id, folder)
        THEN loadFileSummary(records[key]).file
        ELSE records[key]]

InitSidebar ==
    /\ _isLoading = FALSE
    /\ _folders = [id |-> 0, names |-> <<>>]
    /\ _loadedFolderSummaries = {}
    /\ _scope = "current"
    /\ _workspacePath \in WorkspacePaths
    /\ tasks = <<>>
    /\ calls = 0
    /\ ignored = 0
    /\ fileRecords = EmptyRec
    /\ lastReturn = NoReturn
    /\ history = NoHistory

IdleSidebar ==
    /\ _isLoading = FALSE
    /\ _folders = [id |-> 0, names |-> <<>>]
    /\ _loadedFolderSummaries = {}
    /\ _scope = "current"
    /\ _workspacePath = NULL
    /\ tasks = <<>>
    /\ calls = 0
    /\ ignored = 0
    /\ fileRecords = EmptyRec
    /\ lastReturn = NoReturn
    /\ history = NoHistory

\* refresh without the in-flight guard
refreshUnguarded ==
    /\ calls' = calls + 1
    /\ _isLoading' = TRUE
    /\ _loadedFolderSummaries' = {}
    /\ tasks' = Append(tasks, [id |-> calls + 1, pc |-> "scanning", rest |-> <<>>])
    /\ history' = [history EXCEPT !.deferred = FALSE]
    /\ UNCHANGED <<_folders, ignored, fileRecords, lastReturn>>

\* refresh up to its first await
refresh ==
    /\ calls' = calls + 1
    /\ IF _isLoading
       THEN /\ ignored' = ignored + 1
            /\ history' = [history EXCEPT !.deferred = TRUE]
            /\ UNCHANGED <<_isLoading, _folders, _loadedFolderSummaries, tasks>>
       ELSE /\ _isLoading' = TRUE
            /\ _loadedFolderSummaries' = {}
            /\ tasks' = Append(tasks, [id |-> calls + 1, pc |-> "scanning", rest |-> <<>>])
            /\ history' = [history EXCEPT !.deferred = FALSE]
            /\ UNCHANGED <<_folders, ignored>>
    /\ UNCHANGED <<fileRecords, lastReturn>>

\* the webview's 'ready' message
Ready ==
    /\ calls < MaxCalls
    /\ refresh
    /\ UNCHANGED <<_scope, _workspacePath>>
    /\ UNCHANGED <<convVars, valVars, toolVars, scanVars, sumVars, readVars, viewVars, fdVars>>

\* the ai-devtools.refresh command
RefreshCommand ==
    /\ calls < MaxCalls
    /\ refresh
    /\ UNCHANGED <<_scope, _workspacePath>>
    /\ UNCHANGED <<convVars, valVars, toolVars, scanVars, sumVars, readVars, viewVars, fdVars>>

setScope ==
    /\ calls < MaxCalls
    /\ \E scope \in {"current", "all"} :
           /\ _scope # scope
           /\ _scope' = scope
    /\ refresh
    /\ UNCHANGED _workspacePath
    /\ UNCHANGED <<convVars, valVars, toolVars, scanVars, sumVars, readVars, viewVars, fdVars>>

toggleScope ==
    /\ calls < MaxCalls
    /\ _scope' = (IF _scope = "current" THEN "all" ELSE "current")
    /\ refresh
    /\ UNCHANGED _workspacePath
    /\ UNCHANGED <<convVars, valVars, toolVars, scanVars, sumVars, readVars, viewVars, fdVars>>

setWorkspacePath ==
    /\ calls < MaxCalls
    /\ \E workspacePath \in WorkspacePaths : _workspacePath' = workspacePath
    /\ refresh
    /\ UNCHANGED _scope
    /\ UNCHANGED <<convVars, valVars, toolVars, scanVars, sumVars, readVars, viewVars, fdVars>>

\* the summaries loop from folder list `rest` on: call loadFolderSummaries
\* for the next folder not yet loaded and stop at its await, or fall through
\* to the finally block
ContinueLoop(i, rest, loaded, records) ==
    LET todo == SkipLoaded(rest, loaded)
    IN IF todo = <<>>
       THEN /\ _isLoading' = FALSE
            /\ tasks' = RemoveAt(tasks, i)
            /\ fileRecords' = records
       ELSE /\ tasks' = [tasks EXCEPT ![i] = [@ EXCEPT !.pc = "loading", !.rest = todo]]
            /\ fileRecords' = loadFolderSummaries(records, tasks[i].id, Head(todo))
            /\ UNCHANGED _isLoading

\* scanForConversationsAsync resolves
ScanResolve ==
    /\ \E i \in 1..Len(tasks) :
           /\ tasks[i].pc = "scanning"
           /\ \E result \in ScanResults :
                  /\ _folders' = [id |-> tasks[i].id, names |-> result]
                  /\ ContinueLoop(i, result, _loadedFolderSummaries,
                                  ScannedRecords(tasks[i].id, result) @@ HeldRecords(i))
    /\ lastReturn' = NoReturn
    /\ UNCHANGED <<_loadedFolderSummaries, _scope, _workspacePath, calls, ignored>>
    /\ UNCHANGED history
    /\ UNCHANGED <<convVars, valVars, toolVars, scanVars, sumVars, readVars, viewVars, fdVars>>

\* a rejection handled without the finally block
ScanRejectKeepsGuard ==
    /\ \E i \in 1..Len(tasks) :
           /\ tasks[i].pc = "scanning"
           /\ _folders' = [id |-> tasks[i].id, names |-> <<>>]
           /\ tasks' = RemoveAt(tasks, i)
           /\ fileRecords' = HeldRecords(i)
    /\ lastReturn' = NoReturn
    /\ UNCHANGED <<_isLoading, _loadedFolderSummaries, _scope, _workspacePath, calls, ignored>>
    /\ UNCHANGED history
    /\ UNCHANGED <<convVars, valVars, toolVars, scanVars, sumVars, readVars, viewVars, fdVars>>

\* scanForConversationsAsync rejects: catch, then finally
ScanReject ==
    /\ \E i \in 1..Len(tasks) :
           /\ tasks[i].pc = "scanning"
           /\ _folders' = [id |-> tasks[i].id, names |-> <<>>]
           /\ _isLoading' = FALSE
           /\ tasks' = RemoveAt(tasks, i)
           /\ fileRecords' = HeldRecords(i)
    /\ lastReturn' = NoReturn
    /\ UNCHANGED <<_loadedFolderSummaries, _scope, _workspacePath, calls, ignored>>
    /\ UNCHANGED history
    /\ UNCHANGED <<convVars, valVars, toolVars, scanVars, sumVars, readVars, viewVars, fdVars>>

\* the open/read of one loadFileSummary call resolves: the preview is
\* extracted from the chunk and stored
ReadChunkResolve ==
    /\ \E key \in DOMAIN fileRecords :
           /\ fileRecords[key].pending > 0
           /\ \E summary \in Previews :
                  fileRecords' = [fileRecords EXCEPT ![key] = StoreSummary(@, summary)]
    /\ UNCHANGED <<_isLoading, _folders, _loadedFolderSummaries, _scope, _workspacePath,
                   tasks, calls, ignored, lastReturn>>
    /\ UNCHANGED history
    /\ UNCHANGED <<convVars, valVars, toolVars, scanVars, sumVars, readVars, viewVars, fdVars>>

\* the open/read of one loadFileSummary call rejects: the catch block stores ''
ReadChunkReject ==
    /\ \E key \in DOMAIN fileRecords :
           /\ fileRecords[key].pending > 0
           /\ fileRecords' = [fileRecords EXCEPT ![key] = StoreSummary(@, "")]
    /\ UNCHANGED <<_isLoading, _folders, _loadedFolderSummaries, _scope, _workspacePath,
                   tasks, calls, ignored, lastReturn>>
    /\ UNCHANGED history
    /\ UNCHANGED <<convVars, valVars, toolVars, scanVars, sumVars, readVars, viewVars, fdVars>>

\* loadFolderSummaries resolves for the folder at the head of the loop, once
\* every loadFileSummary promise of the folder has settled
LoadResolve ==
    /\ \E i \in 1..Len(tasks) :
           /\ tasks[i].pc = "loading"
           /\ \A key \in FolderKeys(fileRecords, tasks[i].id, Head(tasks[i].rest)) :
                  fileRecords[key].pending = 0
           /\ _loadedFolderSummaries' = _loadedFolderSummaries \cup {Head(tasks[i].rest)}
           /\ ContinueLoop(i, Tail(tasks[i].rest), _loadedFolderSummaries', fileRecords)
    /\ UNCHANGED <<_folders, _scope, _workspacePath, calls, ignored, lastReturn>>
    /\ UNCHANGED history
    /\ UNCHANGED <<convVars, valVars, toolVars, scanVars, sumVars, readVars, viewVars, fdVars>>

\* clearCache empties the Map object in place, which ends a loop iterating it
clearCache ==
    /\ history' = [history EXCEPT !.clearedAt = calls]
    /\ _folders' = [_folders EXCEPT !.names = <<>>]
    /\ _loadedFolderSummaries' = {}
    /\ tasks' = [i \in 1..Len(tasks) |->
                    IF tasks[i].pc = "loading" /\ tasks[i].id = _folders.id
                    THEN [tasks[i] EXCEPT !.rest = <<Head(@)>>]
                    ELSE tasks[i]]
    /\ UNCHANGED <<_isLoading, _scope, _workspacePath, calls, ignored>>
    /\ UNCHANGED <<fileRecords, lastReturn>>
    /\ UNCHANGED <<convVars, valVars, toolVars, scanVars, sumVars, readVars, viewVars, fdVars>>

\* a later call of loadFileSummary on a record whose preview has been stored
LaterLoad ==
    /\ \E key \in DOMAIN fileRecords :
           /\ fileRecords[key].summary # NULL
           /\ fileRecords' = [fileRecords EXCEPT ![key] = loadFileSummary(@).file]
           /\ lastReturn' = [key |-> key, value |-> loadFileSummary(fileRecords[key]).returns]
    /\ UNCHANGED <<_isLoading, _folders, _loadedFolderSummaries, _scope, _workspacePath,
                   tasks, calls, ignored>>
    /\ UNCHANGED history
    /\ UNCHANGED <<convVars, valVars, toolVars, scanVars, sumVars, readVars, viewVars, fdVars>>

NextSidebar ==
    \/ Ready
    \/ RefreshCommand
    \/ setScope
    \/ toggleScope
    \/ setWorkspacePath
    \/ ScanResolve
    \/ ScanReject
    \/ ReadChunkResolve
    \/ ReadChunkReject
    \/ LoadResolve
    \/ clearCache
    \/ LaterLoad

\* C5: at most one refresh is past its guard at any time, and a call to
\* refresh made while one is (from 'ready', the refresh command, setScope,
\* toggleScope or setWorkspacePath) starts no scan and leaves the group
\* mapping and the loaded-summaries set as they were.
C5_OneScanInFlight ==
    /\ [](Len(tasks) <= 1)
    /\ [][(calls' # calls /\ tasks # <<>>) =>
              /\ tasks' = tasks
              /\ _folders' = _folders
              /\ _loadedFolderSummaries' = _loadedFolderSummaries]_vars

\* a call was turned away while the summaries of a second folder were loading
C5_Witness ==
    /\ ignored >= 1
    /\ Len(tasks) = 1
    /\ tasks[1].pc = "loading"
    /\ _loadedFolderSummaries # {}
    /\ Len(_folders.names) = 2

\* the records of the files of group `folder` in the mapping now held
CurrentKeys(folder) == FolderKeys(fileRecords, _folders.id, folder)

\* C12: within one scan cycle each file's preview is computed by at most one
\* task (one chunk read is started for the record, at most one is in flight)
\* and the record's summary field is written exactly once, from null to a
\* string: never more than once, and once for every file of a group whose
\* summaries the cycle has loaded; a later loadFileSummary call on a record
\* whose preview is stored returns the stored value and starts no read.
C12_PreviewComputedOnce ==
    /\ [](\A key \in DOMAIN fileRecords :
              /\ fileRecords[key].reads <= 1
              /\ fileRecords[key].pending <= 1
              /\ fileRecords[key].writes <= 1
              /\ fileRecords[key].summary = NULL <=> fileRecords[key].writes = 0)
    /\ [](\A folder \in _loadedFolderSummaries : \A key \in CurrentKeys(folder) :
              fileRecords[key].writes = 1)
    /\ [][\A key \in DOMAIN fileRecords \cap DOMAIN fileRecords' :
              fileRecords'[key].summary # fileRecords[key].summary =>
                  /\ fileRecords[key].summary = NULL
                  /\ fileRecords'[key].summary \in Previews]_vars
    /\ [][(lastReturn' # lastReturn /\ lastReturn' # NoReturn) =>
              /\ lastReturn'.value = fileRecords[lastReturn'.key].summary
              /\ fileRecords' = fileRecords]_vars

\* a later call returned the empty preview stored after a read error, for a
\* file of a cycle that loaded both files of its group with one read each
C12_Witness ==
    /\ lastReturn.key = [id |-> 1, file |-> "a1.jsonl"]
    /\ lastReturn.value = ""
    /\ "-w-a" \in _loadedFolderSummaries
    /\ _folders.id = 1
    /\ \A key \in CurrentKeys("-w-a") :
           fileRecords[key].reads = 1 /\ fileRecords[key].writes = 1
    /\ [id |-> 1, file |-> "a2.jsonl"] \in DOMAIN fileRecords
    /\ fileRecords[[id |-> 1, file |-> "a2.jsonl"]].summary = "Fix the login bug"

\* C21: after clearCache the group mapping is empty and stays empty until a
\* scan requested after the clear has completed, however the clear
\* interleaves with a scan in flight: a mapping that is not empty was
\* assigned by a refresh call made after the last clear.
C21_ClearedStaysEmpty ==
    (history.clearedAt >= 0 /\ _folders.names # <<>>) => _folders.id > history.clearedAt

\* what the code keeps: the clear itself leaves the mapping and the loaded set
\* empty
ClearEmptiesMapping ==
    [][history'.clearedAt # history.clearedAt =>
           _folders'.names = <<>> /\ _loadedFolderSummaries' = {}]_vars

\* C22: a refresh call that arrives while a scan is in flight is deferred, not
\* lost: a scan that starts after the call eventually runs, without a further
\* call being made.
C22_DeferredScanRuns == history.deferred ~> ~history.deferred

\* what the code does instead: the call returns at the guard and nothing
\* remembers it once the scan in flight has finished
DeferredCallForgotten ==
    [][(tasks # <<>> /\ tasks' = <<>>) => history'.deferred = history.deferred]_vars

\* C27: the guard is always released: when a refresh that set _isLoading
\* returns (after the scan and the summaries, after a scan failure, or after
\* the mapping was cleared meanwhile) _isLoading is false, it is false
\* whenever no refresh is running, and the next refresh call then starts a
\* scan instead of being turned away.
C27_GuardReleased ==
    /\ [](tasks = <<>> => ~_isLoading)
    /\ [][Len(tasks') < Len(tasks) => ~_isLoading']_vars
    /\ [][(calls' # calls /\ tasks = <<>>) =>
              /\ Len(tasks') = 1
              /\ tasks'[1].pc = "scanning"
              /\ ignored' = ignored]_vars

\* a first refresh returned after the mapping it was iterating had been
\* cleared, and the second call started a scan
C27_Witness ==
    /\ Len(tasks) = 1
    /\ tasks[1].id = 2
    /\ tasks[1].pc = "scanning"
    /\ _isLoading
    /\ ignored = 0
    /\ history.clearedAt = 1
    /\ _folders = [id |-> 1, names |-> <<>>]
    /\ \E key \in DOMAIN fileRecords : key.id = 1 /\ fileRecords[key].writes = 1

----------------------------------------------------------------------------
(* Store scanner: the file system *)
MIN_FILE_SIZE == 1024

CODEX_UNKNOWN_FOLDER == "__codex_unknown__"

\* a path is the sequence of its segments
Home == <<"~">>

dirname(filePath) == SubSeq(filePath, 1, Len(filePath) - 1)

basename(filePath) == filePath[Len(filePath)]

getClaudeProjectsPaths ==
    <<Home \o <<".claude", "projects">>,
      Home \o <<".claude-profiles", "work", "projects">>,
      Home \o <<".claude-profiles", "personal", "projects">>>>

getCodexPaths ==
    <<Home \o <<".codex">>,
      Home \o <<".codex-profiles", "work">>,
      Home \o <<".codex-profiles", "personal">>>>

getCodexSessionRoots ==
    Flatten([c \in 1..Len(getCodexPaths) |->
                <<getCodexPaths[c] \o <<"sessions">>,
                  getCodexPaths[c] \o <<"archived_sessions">>>>])

detectConversationProfile(basePath) ==
    LET under(profile) ==
            \E k \in 1..(Len(basePath) - 1) :
                /\ basePath[k + 1] = profile
                /\ \/ basePath[k] = ".claude-profiles" /\ k + 1 < Len(basePath)
                   \/ basePath[k] = ".codex-profiles"
    IN IF under("work") THEN "Work"
       ELSE IF under("personal") THEN "Personal"
       ELSE UNDEF

\* a workspace path is the sequence of its separators and names
RECURSIVE encodeWorkspacePath(_)
encodeWorkspacePath(workspacePath) ==
    IF workspacePath = <<>> THEN ""
    ELSE (IF Head(workspacePath) = "/" THEN "-" ELSE Head(workspacePath))
             \o encodeWorkspacePath(Tail(workspacePath))

JsonlNames == {"a1.jsonl", "a2.jsonl", "a3.jsonl", "g1.jsonl", "g2.jsonl", "g3.jsonl", "g4.jsonl"}

endsWithJsonl(name) == name \in JsonlNames

Dir(readable, entries) == [kind |-> "dir", readable |-> readable, entries |-> entries]

File(statOk, size, mtime, readOk, text) ==
    [kind |-> "file", statOk |-> statOk, size |-> size, mtime |-> mtime,
     readOk |-> readOk, text |-> text]

DirEnt(name) == [name |-> name, isDirectory |-> TRUE, isFile |-> FALSE]

FileEnt(name) == [name |-> name, isDirectory |-> FALSE, isFile |-> TRUE]

existsSync(somePath) == somePath \in DOMAIN fs

\* the first cwd a session_meta or turn_context line carries, <<>> if none
RECURSIVE extractCodexSessionMeta(_)
extractCodexSessionMeta(text) ==
    IF text = <<>> THEN <<>>
    ELSE LET line == Head(text)
             rest == extractCodexSessionMeta(Tail(text))
         IN IF LineIsBlank(line) \/ ~isRecordLine(line) THEN rest
            ELSE IF getString(line.o, "type") \notin {"session_meta", "turn_context"} THEN rest
            ELSE IF ~Has(line.o, "payload") \/ ~Has(line.o.payload, "cwd") THEN rest
            ELSE IF line.o.payload.cwd = <<>> THEN rest
            ELSE line.o.payload.cwd

MetaText(kind, cwd) == <<Obj([type |-> kind, payload |-> [id |-> "s1", cwd |-> cwd]])>>

NoMetaText == <<Obj([type |-> "session_meta", payload |-> [id |-> "s1"]]), UserMessageLine>>

\* the stores a scan can meet
StoreShapes ==
    [claude1 : {"missing", "unreadable", "ok"}, aReadable : BOOLEAN, a1StatOk : BOOLEAN,
     a2Size : {MIN_FILE_SIZE - 1, MIN_FILE_SIZE}, claude2 : {"missing", "ok"},
     codex1 : {"missing", "unreadable", "ok"}, d1Readable : BOOLEAN,
     g1Cwd : {<<>>, <<"/", "w", "/", "a">>}, g1Mtime : {1, 2},
     codex2 : {"missing", "ok"}, g4ReadOk : BOOLEAN]

ClaudeStore1(shape) ==
    LET root == getClaudeProjectsPaths[1]
        folder == root \o <<"-w-a">>
    IN IF shape.claude1 = "missing" THEN EmptyRec
       ELSE (root :> Dir(shape.claude1 = "ok", <<FileEnt("notes.txt"), DirEnt("-w-a")>>))
            @@ (root \o <<"notes.txt">> :> File(TRUE, 4096, 1, TRUE, <<>>))
            @@ (folder :> Dir(shape.aReadable,
                              <<FileEnt("a1.jsonl"), FileEnt("notes.txt"), FileEnt("a2.jsonl")>>))
            @@ (folder \o <<"a1.jsonl">> :> File(shape.a1StatOk, 2048, 3, TRUE, <<NativeUserLine>>))
            @@ (folder \o <<"notes.txt">> :> File(TRUE, 4096, 1, TRUE, <<>>))
            @@ (folder \o <<"a2.jsonl">> :> File(TRUE, shape.a2Size, 1, TRUE, <<NativeUserLine>>))

ClaudeStore2(shape) ==
    LET root == getClaudeProjectsPaths[2]
        folder == root \o <<"-w-a">>
    IN IF shape.claude2 = "missing" THEN EmptyRec
       ELSE (root :> Dir(TRUE, <<DirEnt("-w-a")>>))
            @@ (folder :> Dir(TRUE, <<FileEnt("a3.jsonl")>>))
            @@ (folder \o <<"a3.jsonl">> :> File(TRUE, 2048, 2, TRUE, <<NativeUserLine>>))

CodexStore1(shape) ==
    LET root == getCodexSessionRoots[1]
    IN IF shape.codex1 = "missing" THEN EmptyRec
       ELSE (root :> Dir(shape.codex1 = "ok",
                         <<DirEnt("d1"), FileEnt("g1.jsonl"), DirEnt("d2")>>))
            @@ (root \o <<"d1">> :> Dir(shape.d1Readable, <<FileEnt("g2.jsonl")>>))
            @@ (root \o <<"d1", "g2.jsonl">> :>
                    File(TRUE, 2048, 1, TRUE, MetaText("session_meta", <<"/", "w-a">>)))
            @@ (root \o <<"g1.jsonl">> :>
                    File(TRUE, 2048, shape.g1Mtime, TRUE,
                         IF shape.g1Cwd = <<>> THEN NoMetaText
                         ELSE MetaText("turn_context", shape.g1Cwd)))
            @@ (root \o <<"d2">> :> Dir(TRUE, <<FileEnt("g3.jsonl"), FileEnt("notes.txt")>>))
            @@ (root \o <<"d2", "g3.jsonl">> :> File(TRUE, 2048, 1, TRUE, NoMetaText))
            @@ (root \o <<"d2", "notes.txt">> :> File(TRUE, 4096, 1, TRUE, <<>>))

CodexStore2(shape) ==
    LET root == getCodexSessionRoots[2]
    IN IF shape.codex2 = "missing" THEN EmptyRec
       ELSE (root :> Dir(TRUE, <<FileEnt("g4.jsonl")>>))
            @@ (root \o <<"g4.jsonl">> :>
                    File(TRUE, 2048, 2, shape.g4ReadOk,
                         MetaText("session_meta", <<"/", "w", "/", "a">>)))

StoreOf(shape) ==
    ClaudeStore1(shape) @@ ClaudeStore2(shape) @@ CodexStore1(shape) @@ CodexStore2(shape)

----------------------------------------------------------------------------
(* Store scanner: the group mapping *)
\* a Map of FolderNode is the sequence of its values in insertion order
HasFolder(folders, name) == \E k \in 1..Len(folders) : folders[k].name = name

FolderIndex(folders, name) == CHOOSE k \in 1..Len(folders) : folders[k].name = name

ConversationFile(filePath, folder, stats, source, profile) ==
    [name |-> basename(filePath), path |-> filePath, folder |-> folder, size |-> stats.size,
     summary |-> NULL, lastModified |-> stats.mtime, source |-> source, profile |-> profile]

\* ensureFolderNode, then the push unless the path is already a member
addConversationFile(folders, folderName, folderPath, file) ==
    IF ~HasFolder(folders, folderName)
    THEN Append(folders, [name |-> folderName, path |-> folderPath, files |-> <<file>>])
    ELSE LET k == FolderIndex(folders, folderName)
         IN IF \E e \in 1..Len(folders[k].files) : folders[k].files[e].path = file.path
            THEN folders
            ELSE [folders EXCEPT ![k].files = Append(@, file)]

\* Array.prototype.sort is stable: a file goes behind those at least as recent
RECURSIVE InsertByDate(_, _)
InsertByDate(sorted, file) ==
    IF sorted = <<>> THEN <<file>>
    ELSE IF Head(sorted).lastModified >= file.lastModified
         THEN <<Head(sorted)>> \o InsertByDate(Tail(sorted), file)
         ELSE <<file>> \o sorted

RECURSIVE SortFiles(_, _)
SortFiles(sorted, files) ==
    IF files = <<>> THEN sorted
    ELSE SortFiles(InsertByDate(sorted, Head(files)), Tail(files))

\* a scan that returns the groups in the order the files were added
sortFolderFilesSkipped(folders) == folders

sortFolderFilesByDate(folders) ==
    [k \in 1..Len(folders) |-> [folders[k] EXCEPT !.files = SortFiles(<<>>, @)]]

getFolderNameForCodexFile(filePath) ==
    LET cwd == IF fs[filePath].readOk THEN extractCodexSessionMeta(fs[filePath].text)
               ELSE <<>>
    IN IF cwd # <<>>
       THEN [name |-> encodeWorkspacePath(cwd), folderPath |-> cwd]
       ELSE [name |-> CODEX_UNKNOWN_FOLDER, folderPath |-> dirname(filePath)]

getFolderNameForCodexFileAsync(filePath) ==
    LET cwd == IF fs[filePath].readOk THEN extractCodexSessionMeta(fs[filePath].text)
               ELSE <<>>
    IN IF cwd # <<>>
       THEN [name |-> encodeWorkspacePath(cwd), folderPath |-> cwd]
       ELSE [name |-> CODEX_UNKNOWN_FOLDER, folderPath |-> dirname(filePath)]

----------------------------------------------------------------------------
(* Store scanner: the blocking scan *)
\* the files of one project folder; a failing statSync leaves the loop
RECURSIVE ClaudeFolderFilesSync(_, _, _, _, _)
ClaudeFolderFilesSync(folders, entryName, folderPath, files, profile) ==
    IF files = <<>> THEN folders
    ELSE LET file == Head(files)
             filePath == folderPath \o <<file.name>>
         IN IF ~file.isFile \/ ~endsWithJsonl(file.name)
            THEN ClaudeFolderFilesSync(folders, entryName, folderPath, Tail(files), profile)
            ELSE IF ~fs[filePath].statOk THEN folders
            ELSE IF fs[filePath].size < MIN_FILE_SIZE
            THEN ClaudeFolderFilesSync(folders, entryName, folderPath, Tail(files), profile)
            ELSE ClaudeFolderFilesSync(
                     addConversationFile(folders, entryName, folderPath,
                         ConversationFile(filePath, entryName, fs[filePath], "Claude", profile)),
                     entryName, folderPath, Tail(files), profile)

RECURSIVE ClaudeEntriesSync(_, _, _, _)
ClaudeEntriesSync(folders, projectsPath, entries, profile) ==
    IF entries = <<>> THEN folders
    ELSE LET entry == Head(entries)
             folderPath == projectsPath \o <<entry.name>>
         IN IF ~entry.isDirectory
            THEN ClaudeEntriesSync(folders, projectsPath, Tail(entries), profile)
            ELSE IF ~fs[folderPath].readable
            THEN ClaudeEntriesSync(folders, projectsPath, Tail(entries), profile)
            ELSE ClaudeEntriesSync(
                     ClaudeFolderFilesSync(folders, entry.name, folderPath,
                                           fs[folderPath].entries, profile),
                     projectsPath, Tail(entries), profile)

\* [threw, folders]: readdirSync of a root is outside every try
RECURSIVE ClaudeRootsSync(_, _)
ClaudeRootsSync(folders, projectsPaths) ==
    IF projectsPaths = <<>> THEN [threw |-> FALSE, folders |-> folders]
    ELSE LET projectsPath == Head(projectsPaths)
         IN IF ~existsSync(projectsPath) THEN ClaudeRootsSync(folders, Tail(projectsPaths))
            ELSE IF ~fs[projectsPath].readable THEN [threw |-> TRUE, folders |-> folders]
            ELSE ClaudeRootsSync(
                     ClaudeEntriesSync(folders, projectsPath, fs[projectsPath].entries,
                                       detectConversationProfile(projectsPath)),
                     Tail(projectsPaths))

scanClaudeConversationsSync(folders) == ClaudeRootsSync(folders, getClaudeProjectsPaths)

\* [threw, files]: depth first, a directory's files where the listing has them
RECURSIVE collectJsonlFilesSync(_, _)
RECURSIVE CollectEntriesSync(_, _, _)
collectJsonlFilesSync(rootDir, files) ==
    IF ~fs[rootDir].readable THEN [threw |-> TRUE, files |-> files]
    ELSE CollectEntriesSync(rootDir, fs[rootDir].entries, files)

CollectEntriesSync(rootDir, entries, files) ==
    IF entries = <<>> THEN [threw |-> FALSE, files |-> files]
    ELSE LET entry == Head(entries)
             fullPath == rootDir \o <<entry.name>>
         IN IF entry.isDirectory
            THEN LET below == collectJsonlFilesSync(fullPath, files)
                 IN IF below.threw THEN below
                    ELSE CollectEntriesSync(rootDir, Tail(entries), below.files)
            ELSE IF entry.isFile /\ endsWithJsonl(entry.name)
            THEN CollectEntriesSync(rootDir, Tail(entries), Append(files, fullPath))
            ELSE CollectEntriesSync(rootDir, Tail(entries), files)

RECURSIVE CodexFilesSync(_, _, _)
CodexFilesSync(folders, files, profile) ==
    IF files = <<>> THEN folders
    ELSE LET filePath == Head(files)
             folderInfo == getFolderNameForCodexFile(filePath)
         IN IF ~fs[filePath].statOk THEN CodexFilesSync(folders, Tail(files), profile)
            ELSE IF fs[filePath].size < MIN_FILE_SIZE
            THEN CodexFilesSync(folders, Tail(files), profile)
            ELSE CodexFilesSync(
                     addConversationFile(folders, folderInfo.name, folderInfo.folderPath,
                         ConversationFile(filePath, folderInfo.name, fs[filePath], "Codex",
                                          profile)),
                     Tail(files), profile)

RECURSIVE CodexRootsSync(_, _)
CodexRootsSync(folders, roots) ==
    IF roots = <<>> THEN folders
    ELSE LET rootPath == Head(roots)
             collected == collectJsonlFilesSync(rootPath, <<>>)
         IN IF ~existsSync(rootPath) THEN CodexRootsSync(folders, Tail(roots))
            ELSE IF collected.threw THEN CodexRootsSync(folders, Tail(roots))
            ELSE CodexRootsSync(
                     CodexFilesSync(folders, collected.files,
                                    detectConversationProfile(rootPath)),
                     Tail(roots))

scanCodexConversationsSync(folders) == CodexRootsSync(folders, getCodexSessionRoots)

\* [state, folders]: "returned" with the mapping, or "threw"
scanForConversations ==
    LET claude == scanClaudeConversationsSync(<<>>)
    IN IF claude.threw THEN [state |-> "threw", folders |-> <<>>]
       ELSE [state |-> "returned",
             folders |-> sortFolderFilesByDate(scanCodexConversationsSync(claude.folders))]

----------------------------------------------------------------------------
(* Store scanner: the non-blocking scan, one action per await *)
NotStarted ==
    [pc |-> "idle", root |-> 1, entries |-> <<>>, files |-> <<>>, queue |-> <<>>,
     collected |-> <<>>, folders |-> <<>>, active |-> {}, peak |-> 0]

InitScan ==
    /\ fs \in {StoreOf(shape) : shape \in StoreShapes}
    /\ syncResult = [state |-> "none", folders |-> <<>>]
    /\ scan = NotStarted

IdleScan ==
    /\ fs = EmptyRec
    /\ syncResult = [state |-> "none", folders |-> <<>>]
    /\ scan = NotStarted

\* the root's scan begins: it is in progress until Leave
Enter(s, rootPath) ==
    [s EXCEPT !.active = @ \cup {rootPath},
              !.peak = IF Cardinality(s.active \cup {rootPath}) > @
                       THEN Cardinality(s.active \cup {rootPath}) ELSE @]

Leave(s, rootPath) == [s EXCEPT !.active = @ \ {rootPath}]

ClaudeNextRoot(s, k) ==
    IF k > Len(getClaudeProjectsPaths) THEN [s EXCEPT !.pc = "codexAccess", !.root = 1]
    ELSE [s EXCEPT !.pc = "claudeAccess", !.root = k]

\* on to the next directory entry of the root, whose listing is awaited
RECURSIVE ClaudeNextEntry(_)
ClaudeNextEntry(s) ==
    IF s.entries = <<>>
    THEN ClaudeNextRoot(Leave(s, getClaudeProjectsPaths[s.root]), s.root + 1)
    ELSE IF ~Head(s.entries).isDirectory THEN ClaudeNextEntry([s EXCEPT !.entries = Tail(@)])
    ELSE [s EXCEPT !.pc = "claudeReaddirFolder"]

\* on to the next .jsonl file of the folder, whose stat is awaited
RECURSIVE ClaudeNextFile(_)
ClaudeNextFile(s) ==
    IF s.files = <<>> THEN ClaudeNextEntry([s EXCEPT !.entries = Tail(@)])
    ELSE IF ~Head(s.files).isFile \/ ~endsWithJsonl(Head(s.files).name)
    THEN ClaudeNextFile([s EXCEPT !.files = Tail(@)])
    ELSE [s EXCEPT !.pc = "claudeStat"]

CodexNextRoot(s, k) ==
    IF k > Len(getCodexSessionRoots)
    THEN [s EXCEPT !.pc = "done", !.folders = sortFolderFilesByDate(@)]
    ELSE [s EXCEPT !.pc = "codexAccess", !.root = k]

CodexNextFile(s) ==
    IF s.files = <<>> THEN CodexNextRoot(Leave(s, getCodexSessionRoots[s.root]), s.root + 1)
    ELSE [s EXCEPT !.pc = "codexStat"]

\* scanForConversationsAsync is called and runs to its first await
AsyncStart ==
    /\ scan.pc = "idle"
    /\ scan' = ClaudeNextRoot(scan, 1)
    /\ UNCHANGED <<fs, syncResult>>
    /\ UNCHANGED <<convVars, valVars, toolVars, sideVars, sumVars, readVars, viewVars, fdVars>>

\* fs.promises.access(projectsPath) settles
ClaudeAccess ==
    /\ scan.pc = "claudeAccess"
    /\ LET projectsPath == getClaudeProjectsPaths[scan.root]
       IN scan' = IF ~existsSync(projectsPath) THEN ClaudeNextRoot(scan, scan.root + 1)
                  ELSE Enter([scan EXCEPT !.pc = "claudeReaddirRoot"], projectsPath)
    /\ UNCHANGED <<fs, syncResult>>
    /\ UNCHANGED <<convVars, valVars, toolVars, sideVars, sumVars, readVars, viewVars, fdVars>>

\* fs.promises.readdir(projectsPath) settles; its rejection is not caught
ClaudeReaddirRoot ==
    /\ scan.pc = "claudeReaddirRoot"
    /\ LET projectsPath == getClaudeProjectsPaths[scan.root]
       IN scan' = IF ~fs[projectsPath].readable THEN [scan EXCEPT !.pc = "rejected"]
                  ELSE ClaudeNextEntry([scan EXCEPT !.entries = fs[projectsPath].entries])
    /\ UNCHANGED <<fs, syncResult>>
    /\ UNCHANGED <<convVars, valVars, toolVars, sideVars, sumVars, readVars, viewVars, fdVars>>

\* fs.promises.readdir(folderPath) settles
ClaudeReaddirFolder ==
    /\ scan.pc = "claudeReaddirFolder"
    /\ LET folderPath == getClaudeProjectsPaths[scan.root] \o <<Head(scan.entries).name>>
       IN scan' = IF ~fs[folderPath].readable
                  THEN ClaudeNextEntry([scan EXCEPT !.entries = Tail(@)])
                  ELSE ClaudeNextFile([scan EXCEPT !.files = fs[folderPath].entries])
    /\ UNCHANGED <<fs, syncResult>>
    /\ UNCHANGED <<convVars, valVars, toolVars, sideVars, sumVars, readVars, viewVars, fdVars>>

\* fs.promises.stat(filePath) settles; its rejection ends the folder's loop
ClaudeStat ==
    /\ scan.pc = "claudeStat"
    /\ LET entry == Head(scan.entries)
           folderPath == getClaudeProjectsPaths[scan.root] \o <<entry.name>>
           filePath == folderPath \o <<Head(scan.files).name>>
           profile == detectConversationProfile(getClaudeProjectsPaths[scan.root])
       IN scan' =
              IF ~fs[filePath].statOk
              THEN ClaudeNextEntry([scan EXCEPT !.entries = Tail(@), !.files = <<>>])
              ELSE IF fs[filePath].size < MIN_FILE_SIZE
              THEN ClaudeNextFile([scan EXCEPT !.files = Tail(@)])
              ELSE ClaudeNextFile(
                       [scan EXCEPT !.files = Tail(@),
                                    !.folders = addConversationFile(@, entry.name, folderPath,
                                        ConversationFile(filePath, entry.name, fs[filePath],
                                                         "Claude", profile))])
    /\ UNCHANGED <<fs, syncResult>>
    /\ UNCHANGED <<convVars, valVars, toolVars, sideVars, sumVars, readVars, viewVars, fdVars>>

\* fs.promises.access(rootPath) settles
CodexAccess ==
    /\ scan.pc = "codexAccess"
    /\ LET rootPath == getCodexSessionRoots[scan.root]
       IN scan' = IF ~existsSync(rootPath) THEN CodexNextRoot(scan, scan.root + 1)
                  ELSE Enter([scan EXCEPT !.pc = "collect", !.queue = <<rootPath>>,
                                          !.collected = <<>>], rootPath)
    /\ UNCHANGED <<fs, syncResult>>
    /\ UNCHANGED <<convVars, valVars, toolVars, sideVars, sumVars, readVars, viewVars, fdVars>>

\* collectJsonlFilesAsync: the readdir of the directory popped off the queue
\* settles
CollectReaddir ==
    /\ scan.pc = "collect"
    /\ LET currentDir == scan.queue[Len(scan.queue)]
           popped == SubSeq(scan.queue, 1, Len(scan.queue) - 1)
           entries == IF fs[currentDir].readable THEN fs[currentDir].entries ELSE <<>>
           dirs == SelectSeq(entries, LAMBDA entry : entry.isDirectory)
           jsonl == SelectSeq(entries, LAMBDA entry :
                        ~entry.isDirectory /\ entry.isFile /\ endsWithJsonl(entry.name))
           queue == popped \o [d \in 1..Len(dirs) |-> currentDir \o <<dirs[d].name>>]
           files == scan.collected \o [f \in 1..Len(jsonl) |-> currentDir \o <<jsonl[f].name>>]
       IN scan' = IF queue # <<>> THEN [scan EXCEPT !.queue = queue, !.collected = files]
                  ELSE CodexNextFile([scan EXCEPT !.queue = <<>>, !.collected = <<>>,
                                                  !.files = files])
    /\ UNCHANGED <<fs, syncResult>>
    /\ UNCHANGED <<convVars, valVars, toolVars, sideVars, sumVars, readVars, viewVars, fdVars>>

\* fs.promises.stat(filePath) settles
CodexStat ==
    /\ scan.pc = "codexStat"
    /\ LET filePath == Head(scan.files)
       IN scan' = IF ~fs[filePath].statOk \/ fs[filePath].size < MIN_FILE_SIZE
                  THEN CodexNextFile([scan EXCEPT !.files = Tail(@)])
                  ELSE [scan EXCEPT !.pc = "codexReadChunk"]
    /\ UNCHANGED <<fs, syncResult>>
    /\ UNCHANGED <<convVars, valVars, toolVars, sideVars, sumVars, readVars, viewVars, fdVars>>

\* getFolderNameForCodexFileAsync settles
CodexReadChunk ==
    /\ scan.pc = "codexReadChunk"
    /\ LET filePath == Head(scan.files)
           folderInfo == getFolderNameForCodexFileAsync(filePath)
           profile == detectConversationProfile(getCodexSessionRoots[scan.root])
       IN scan' = CodexNextFile(
                      [scan EXCEPT !.files = Tail(@),
                                   !.folders = addConversationFile(@, folderInfo.name,
                                       folderInfo.folderPath,
                                       ConversationFile(filePath, folderInfo.name, fs[filePath],
                                                        "Codex", profile))])
    /\ UNCHANGED <<fs, syncResult>>
    /\ UNCHANGED <<convVars, valVars, toolVars, sideVars, sumVars, readVars, viewVars, fdVars>>

\* the blocking scan, start to end
SyncScan ==
    /\ syncResult.state = "none"
    /\ syncResult' = scanForConversations
    /\ UNCHANGED <<fs, scan>>
    /\ UNCHANGED <<convVars, valVars, toolVars, sideVars, sumVars, readVars, viewVars, fdVars>>

NextScan ==
    \/ SyncScan
    \/ AsyncStart
    \/ ClaudeAccess
    \/ ClaudeReaddirRoot
    \/ ClaudeReaddirFolder
    \/ ClaudeStat
    \/ CodexAccess
    \/ CollectReaddir
    \/ CodexStat
    \/ CodexReadChunk

----------------------------------------------------------------------------
(* Claims about the scans *)
FolderNamesOf(folders) == {folders[k].name : k \in 1..Len(folders)}

SameMapping(left, right) ==
    /\ FolderNamesOf(left) = FolderNamesOf(right)
    /\ \A name \in FolderNamesOf(left) :
           LET l == left[FolderIndex(left, name)]
               r == right[FolderIndex(right, name)]
           IN l.path = r.path /\ l.files = r.files

AsyncSettled == scan.pc \in {"done", "rejected"}

\* C6: on every store the blocking and the non-blocking scan end alike, and
\* when they return they return the same group keys, the same path for each
\* key and the same files in the same order in each group.
C6_SyncAsyncIdentical ==
    (syncResult.state # "none" /\ AsyncSettled) =>
        /\ (syncResult.state = "threw") <=> (scan.pc = "rejected")
        /\ syncResult.state = "returned" => SameMapping(syncResult.folders, scan.folders)

ExistingRoots ==
    ({getClaudeProjectsPaths[k] : k \in 1..Len(getClaudeProjectsPaths)}
         \cup {getCodexSessionRoots[k] : k \in 1..Len(getCodexSessionRoots)})
    \cap DOMAIN fs

\* C7: roots are not scanned one behind the other: a non-blocking scan of a
\* store with two existing roots has had one root's scan started and not yet
\* finished while another root's scan was in progress.
C7_RootsScannedConcurrently ==
    (scan.pc = "done" /\ Cardinality(ExistingRoots) >= 2) => scan.peak >= 2

\* what the code does instead: at most one root is ever in progress
RootScansSerialized == Cardinality(scan.active) <= 1 /\ scan.peak <= 1

IsPrefix(short, long) == Len(short) <= Len(long) /\ SubSeq(long, 1, Len(short)) = short

\* every directory from the root down to the file's own is there and readable
ReadableDown(rootPath, filePath) ==
    \A n \in Len(rootPath)..(Len(filePath) - 1) :
        LET dir == SubSeq(filePath, 1, n)
        IN dir \in DOMAIN fs /\ fs[dir].kind = "dir" /\ fs[dir].readable

\* the regular .jsonl files of at least the minimum size that a scan can reach
ReachableFiles ==
    {filePath \in DOMAIN fs :
        /\ fs[filePath].kind = "file"
        /\ endsWithJsonl(basename(filePath))
        /\ fs[filePath].statOk
        /\ fs[filePath].size >= MIN_FILE_SIZE
        /\ \/ \E k \in 1..Len(getClaudeProjectsPaths) :
                  /\ Len(filePath) = Len(getClaudeProjectsPaths[k]) + 2
                  /\ IsPrefix(getClaudeProjectsPaths[k], filePath)
                  /\ ReadableDown(getClaudeProjectsPaths[k], filePath)
           \/ \E k \in 1..Len(getCodexSessionRoots) :
                  /\ IsPrefix(getCodexSessionRoots[k], filePath)
                  /\ ReadableDown(getCodexSessionRoots[k], filePath)}

Listed(folders, filePath) ==
    \E k \in 1..Len(folders) :
        \E e \in 1..Len(folders[k].files) : folders[k].files[e].path = filePath

\* C8: whatever root is missing and whatever directory or file cannot be
\* listed or stat'd, neither scan is aborted and each returns every regular
\* .jsonl file of at least the minimum size that lies in readable directories
\* under an existing root.
C8_UnreadablePartsHideNothing ==
    /\ syncResult.state # "none" =>
           /\ syncResult.state = "returned"
           /\ \A filePath \in ReachableFiles : Listed(syncResult.folders, filePath)
    /\ AsyncSettled =>
           /\ scan.pc = "done"
           /\ \A filePath \in ReachableFiles : Listed(scan.folders, filePath)

\* the regular .jsonl files of the store with exactly `size` bytes
JsonlFilesOfSize(size) ==
    {filePath \in DOMAIN fs :
        /\ fs[filePath].kind = "file"
        /\ endsWithJsonl(basename(filePath))
        /\ fs[filePath].size = size}

SizeGate(folders) ==
    /\ \A k \in 1..Len(folders) : \A e \in 1..Len(folders[k].files) :
           folders[k].files[e].size >= MIN_FILE_SIZE
    /\ \A filePath \in JsonlFilesOfSize(MIN_FILE_SIZE - 1) : ~Listed(folders, filePath)
    /\ \A filePath \in JsonlFilesOfSize(MIN_FILE_SIZE) \cap ReachableFiles :
           Listed(folders, filePath)

\* C15: in every mapping a scan returns, every listed file has at least
\* MIN_FILE_SIZE bytes, a regular .jsonl file of MIN_FILE_SIZE - 1 bytes is
\* listed in no group, and a readable regular .jsonl file of exactly
\* MIN_FILE_SIZE bytes is listed.
C15_SizeGate ==
    /\ syncResult.state = "returned" => SizeGate(syncResult.folders)
    /\ scan.pc = "done" => SizeGate(scan.folders)

\* the excluding half, which the code keeps: nothing below the threshold is
\* ever listed
SmallFilesNeverListed ==
    \A folders \in {syncResult.folders, scan.folders} :
        /\ \A k \in 1..Len(folders) : \A e \in 1..Len(folders[k].files) :
               folders[k].files[e].size >= MIN_FILE_SIZE
        /\ \A filePath \in JsonlFilesOfSize(MIN_FILE_SIZE - 1) : ~Listed(folders, filePath)

NewestFirst(folders) ==
    \A k \in 1..Len(folders) : \A e \in 1..(Len(folders[k].files) - 1) :
        folders[k].files[e].lastModified >= folders[k].files[e + 1].lastModified

\* C16: in every mapping returned by scanForConversations or
\* scanForConversationsAsync each group's files are ordered newest first:
\* consecutive files f, g have lastModified(f) >= lastModified(g), also when
\* the group's files come from several roots and both providers.
C16_NewestFirst ==
    /\ syncResult.state = "returned" => NewestFirst(syncResult.folders)
    /\ scan.pc = "done" => NewestFirst(scan.folders)

\* both scans returned group -w-a with files of the default native root, of a
\* profile root and of a foreign root, the file added second (a2, the oldest)
\* moved behind files added after it
C16_Witness ==
    /\ syncResult.state = "returned"
    /\ scan.pc = "done"
    /\ \A folders \in {syncResult.folders, scan.folders} :
           \E k \in 1..Len(folders) :
               LET files == folders[k].files
               IN /\ folders[k].name = "-w-a"
                  /\ Len(files) >= 4
                  /\ files[1].name = "a1.jsonl"
                  /\ files[Len(files)].name = "a2.jsonl"
                  /\ \E e \in 1..Len(files) : files[e].name = "a3.jsonl"
                  /\ \E e \in 1..Len(files) : files[e].source = "Codex"
                  /\ files[1].lastModified > files[Len(files)].lastModified

----------------------------------------------------------------------------
(* Claims about group keys *)
\* the characters of a string, the shape in which the scanner holds a path
Characters(str) == [i \in 1..Len(str) |-> SubSeq(str, i, i)]

\* the same file as the scanner reads it: every working directory as a path
ScannerView(text) ==
    [j \in 1..Len(text) |->
        IF isRecordLine(text[j]) /\ Has(text[j].o, "payload") /\ Has(text[j].o.payload, "cwd")
        THEN Obj([text[j].o EXCEPT !.payload.cwd = Characters(@)])
        ELSE text[j]]

\* C29: for a foreign file that fits entirely in the sampled prefix, the
\* working directory extractCodexSessionMeta derives the group key from equals
\* the working directory in the converter's SessionContext after the whole
\* file has been processed, for every order and number of session_meta and
\* turn_context records in the file.
C29_SameWorkingDirectory ==
    (underCodexRoot /\ isLikelyCodexJsonl(content, underCodexRoot)) =>
        Chars(extractCodexSessionMeta(ScannerView(content))) = ConvertPass(content).ctx.cwd

\* the records of a text that carry a working directory
ContextRecordCount(text) ==
    Cardinality({j \in 1..Len(text) :
                     /\ isRecordLine(text[j])
                     /\ getString(text[j].o, "type") \in {"session_meta", "turn_context"}
                     /\ Has(text[j].o, "payload") /\ Has(text[j].o.payload, "cwd")})

\* with at most one record that carries a working directory the two agree
OneContextRecordAgrees ==
    (underCodexRoot /\ isLikelyCodexJsonl(content, underCodexRoot)
         /\ ContextRecordCount(content) <= 1) =>
        Chars(extractCodexSessionMeta(ScannerView(content))) = ConvertPass(content).ctx.cwd

\* the working directory a listed foreign file was grouped by
DerivedDirectory(file) == extractCodexSessionMeta(fs[file.path].text)

\* the foreign files of one group that were grouped by a working directory
KeyedFiles(folder) ==
    {e \in 1..Len(folder.files) :
         folder.files[e].source = "Codex" /\ folder.name # CODEX_UNKNOWN_FOLDER}

OneDirectoryPerGroup(folders) ==
    \A k \in 1..Len(folders) : \A e1, e2 \in KeyedFiles(folders[k]) :
        DerivedDirectory(folders[k].files[e1]) = DerivedDirectory(folders[k].files[e2])

\* C30: group keys identify working directories: encodeWorkspacePath maps
\* different working-directory paths to different group keys, so no returned
\* mapping holds session files of two working directories in one group.
C30_KeysIdentifyDirectories ==
    /\ syncResult.state = "returned" => OneDirectoryPerGroup(syncResult.folders)
    /\ scan.pc = "done" => OneDirectoryPerGroup(scan.folders)

----------------------------------------------------------------------------
(* Full read of one file *)
MAX_FILE_SIZE_FOR_FULL_READ == 50 * 1024 * 1024

NullResult == [t |-> "null"]

StringResult(text) == [t |-> "string", s |-> text]

\* the outcome of a call: what it returned, and how many times it read content
Returned(result, reads) == [state |-> "returned", value |-> result, reads |-> reads]

NotCalled == [state |-> "none", value |-> NullResult, reads |-> 0]

\* readJsonlFile that also refuses a file of exactly the limit
readJsonlFileExclusive(file, pathUnderCodexRoot) ==
    IF ~file.statOk THEN Returned(NullResult, 0)
    ELSE IF file.size >= MAX_FILE_SIZE_FOR_FULL_READ THEN Returned(NullResult, 0)
    ELSE IF ~file.readOk THEN Returned(NullResult, 1)
    ELSE Returned(StringResult(normalizeConversationContent(file.text, pathUnderCodexRoot)), 1)

\* statSync or readFileSync throwing lands in the catch block
readJsonlFile(file, pathUnderCodexRoot) ==
    IF ~file.statOk THEN Returned(NullResult, 0)
    ELSE IF file.size > MAX_FILE_SIZE_FOR_FULL_READ THEN Returned(NullResult, 0)
    ELSE IF ~file.readOk THEN Returned(NullResult, 1)
    ELSE Returned(StringResult(normalizeConversationContent(file.text, pathUnderCodexRoot)), 1)

FullReadSizes ==
    {MAX_FILE_SIZE_FOR_FULL_READ - 1, MAX_FILE_SIZE_FOR_FULL_READ,
     MAX_FILE_SIZE_FOR_FULL_READ + 1}

FullReadTexts ==
    {<<NativeUserLine>>, <<NativeUserLine, BadLine, NativeSystemLine>>,
     <<SessionMetaLine, UserMessageLine>>}

\* the files read: an empty one, and files around the limit
FullReadFiles ==
    {File(statOk, 0, 1, readOk, <<>>) : statOk \in BOOLEAN, readOk \in BOOLEAN}
    \cup {File(s[1], size, 1, s[2], text) :
              s \in BOOLEAN \X BOOLEAN, size \in FullReadSizes, text \in FullReadTexts}

InitRead ==
    /\ target \in [file : FullReadFiles, underCodexRoot : BOOLEAN]
    /\ syncRead = NotCalled
    /\ asyncRead = NotCalled

IdleRead ==
    /\ target = [file |-> File(TRUE, 0, 1, TRUE, <<>>), underCodexRoot |-> FALSE]
    /\ syncRead = NotCalled
    /\ asyncRead = NotCalled

ReadSync ==
    /\ syncRead.state = "none"
    /\ syncRead' = readJsonlFile(target.file, target.underCodexRoot)
    /\ UNCHANGED <<target, asyncRead>>
    /\ UNCHANGED <<convVars, valVars, toolVars, sideVars, scanVars, sumVars, viewVars, fdVars>>

\* readJsonlFileAsync up to its first await
ReadAsyncStart ==
    /\ asyncRead.state = "none"
    /\ asyncRead' = [asyncRead EXCEPT !.state = "stat"]
    /\ UNCHANGED <<target, syncRead>>
    /\ UNCHANGED <<convVars, valVars, toolVars, sideVars, scanVars, sumVars, viewVars, fdVars>>

\* fs.promises.stat settles
ReadAsyncStat ==
    /\ asyncRead.state = "stat"
    /\ asyncRead' = IF ~target.file.statOk THEN Returned(NullResult, 0)
                    ELSE IF target.file.size > MAX_FILE_SIZE_FOR_FULL_READ
                         THEN Returned(NullResult, 0)
                    ELSE [asyncRead EXCEPT !.state = "reading", !.reads = 1]
    /\ UNCHANGED <<target, syncRead>>
    /\ UNCHANGED <<convVars, valVars, toolVars, sideVars, scanVars, sumVars, viewVars, fdVars>>

\* fs.promises.readFile settles
ReadAsyncReadFile ==
    /\ asyncRead.state = "reading"
    /\ asyncRead' = IF ~target.file.readOk THEN Returned(NullResult, asyncRead.reads)
                    ELSE Returned(StringResult(normalizeConversationContent(
                                      target.file.text, target.underCodexRoot)),
                                  asyncRead.reads)
    /\ UNCHANGED <<target, syncRead>>
    /\ UNCHANGED <<convVars, valVars, toolVars, sideVars, scanVars, sumVars, viewVars, fdVars>>

NextRead ==
    \/ ReadSync
    \/ ReadAsyncStart
    \/ ReadAsyncStat
    \/ ReadAsyncReadFile

\* what the claim requires of one call's outcome
FullReadOutcome(call) ==
    /\ call.state \in {"none", "stat", "reading", "returned"}
    /\ call.state = "returned" =>
           /\ (target.file.statOk /\ target.file.size > MAX_FILE_SIZE_FOR_FULL_READ) =>
                  call.value = NullResult /\ call.reads = 0
           /\ (target.file.statOk /\ target.file.readOk
                   /\ target.file.size <= MAX_FILE_SIZE_FOR_FULL_READ) =>
                  /\ call.reads = 1
                  /\ call.value =
                         StringResult(normalizeConversationContent(target.file.text,
                                                                   target.underCodexRoot))
                  /\ ~target.underCodexRoot /\ ~isLikelyCodexJsonl(target.file.text, FALSE) =>
                         call.value.s = target.file.text
           /\ (target.file.statOk /\ target.file.readOk /\ target.file.size = 0) =>
                  call.value = StringResult(<<>>) /\ call.value # NullResult

\* C14: readJsonlFile and readJsonlFileAsync return null, without reading any
\* content, for a file whose stat size exceeds 50 MiB; a readable file of 50
\* MiB or less is read once and its whole (normalised) text returned; an empty
\* file gives the empty string, which differs from null; neither call throws.
C14_FullReadGate == FullReadOutcome(syncRead) /\ FullReadOutcome(asyncRead)

\* both calls returned the whole text of a file of exactly 50 MiB
C14_Witness ==
    /\ target.file.size = MAX_FILE_SIZE_FOR_FULL_READ
    /\ target.file.text = <<NativeUserLine, BadLine, NativeSystemLine>>
    /\ syncRead = Returned(StringResult(target.file.text), 1)
    /\ asyncRead = syncRead

----------------------------------------------------------------------------
(* The conversation viewer panel (extension.ts) and its webview (App.tsx) *)

\* the commands and webview events of one run
MaxEvents == 4

ViewerFiles == {"a.jsonl", "b.jsonl"}

DefaultTitle == "AI DevTools - Conversation Viewer"

\* the title sendConversationToWebview gives the panel
PanelTitle(name) == "AI DevTools - " \o name

\* currentPanel = undefined; conversationFile is the parameter the panel's
\* message handler closed over, posted the fileName of its last message
NoPanel == [id |-> 0, conversationFile |-> NULL, title |-> NULL, posted |-> NULL]

\* the state of App after mounting
Mounted == [filePath |-> NULL, isRefreshing |-> FALSE]

NoReady == [opened |-> NULL, ready |-> FALSE, sent |-> NULL]

InitViewer ==
    /\ currentPanel = NoPanel
    /\ webview = Mounted
    /\ inbox = <<>>
    /\ sends = <<>>
    /\ readyLog = NoReady
    /\ events = 0

IdleViewer ==
    /\ currentPanel = NoPanel
    /\ webview = Mounted
    /\ inbox = <<>>
    /\ sends = <<>>
    /\ readyLog = NoReady
    /\ events = MaxEvents

\* sendConversationToWebview up to its await
StartSend(panel, file, via) ==
    Append(sends, [file |-> file, panel |-> panel, via |-> via, state |-> "reading"])

\* openConversationViewer(context, conversationFile)
openConversationViewer(conversationFile) ==
    /\ events < MaxEvents
    /\ events' = events + 1
    /\ IF currentPanel.id # 0
       THEN /\ sends' = IF conversationFile # NULL
                        THEN StartSend(currentPanel.id, conversationFile, "open")
                        ELSE sends
            /\ readyLog' = IF conversationFile # NULL
                           THEN [opened |-> conversationFile, ready |-> FALSE, sent |-> NULL]
                           ELSE readyLog
            /\ UNCHANGED <<currentPanel, webview, inbox>>
       ELSE /\ currentPanel' = [id |-> events + 1, conversationFile |-> conversationFile,
                                title |-> DefaultTitle, posted |-> NULL]
            /\ webview' = Mounted
            /\ inbox' = <<>>
            /\ readyLog' = [opened |-> conversationFile, ready |-> FALSE, sent |-> NULL]
            /\ UNCHANGED sends
    /\ UNCHANGED <<convVars, valVars, toolVars, sideVars, scanVars, sumVars, readVars, fdVars>>

\* the webview mounts (first load, or shown again after being hidden: its
\* context is not retained) and posts 'ready'; the panel's handler answers
WebviewReady ==
    /\ events < MaxEvents
    /\ currentPanel.id # 0
    /\ events' = events + 1
    /\ webview' = Mounted
    /\ inbox' = <<>>
    /\ sends' = IF currentPanel.conversationFile # NULL
                THEN StartSend(currentPanel.id, currentPanel.conversationFile, "ready")
                ELSE sends
    /\ readyLog' = [readyLog EXCEPT !.ready = TRUE, !.sent = currentPanel.conversationFile]
    /\ UNCHANGED currentPanel
    /\ UNCHANGED <<convVars, valVars, toolVars, sideVars, scanVars, sumVars, readVars, fdVars>>

\* handleRefresh in the webview, and the panel's 'refreshConversation' case
handleRefresh ==
    /\ events < MaxEvents
    /\ currentPanel.id # 0
    /\ webview.filePath # NULL
    /\ events' = events + 1
    /\ webview' = [webview EXCEPT !.isRefreshing = TRUE]
    /\ sends' = StartSend(currentPanel.id, webview.filePath, "refresh")
    /\ UNCHANGED <<currentPanel, inbox, readyLog>>
    /\ UNCHANGED <<convVars, valVars, toolVars, sideVars, scanVars, sumVars, readVars, fdVars>>

\* readJsonlFileAsync gave content: the rest of sendConversationToWebview
ReadContent(i) ==
    /\ i \in DOMAIN sends
    /\ sends[i].state = "reading"
    /\ IF sends[i].panel = currentPanel.id
       THEN /\ currentPanel' = [currentPanel EXCEPT !.title = PanelTitle(sends[i].file),
                                                    !.posted = sends[i].file]
            /\ inbox' = Append(inbox, sends[i].file)
            /\ sends' = [sends EXCEPT ![i].state = "posted"]
       ELSE \* the panel was disposed meanwhile: nothing reaches a webview
            /\ sends' = [sends EXCEPT ![i].state = "dropped"]
            /\ UNCHANGED <<currentPanel, inbox>>
    /\ UNCHANGED <<webview, readyLog, events>>
    /\ UNCHANGED <<convVars, valVars, toolVars, sideVars, scanVars, sumVars, readVars, fdVars>>

\* a null result that still retitles the panel
ReadNullRetitles(i) ==
    /\ i \in DOMAIN sends
    /\ sends[i].state = "reading"
    /\ sends' = [sends EXCEPT ![i].state = "null"]
    /\ currentPanel' = [currentPanel EXCEPT !.title = PanelTitle(sends[i].file)]
    /\ UNCHANGED <<webview, inbox, readyLog, events>>
    /\ UNCHANGED <<convVars, valVars, toolVars, sideVars, scanVars, sumVars, readVars, fdVars>>

\* readJsonlFileAsync gave null: sendConversationToWebview returns
ReadNull(i) ==
    /\ i \in DOMAIN sends
    /\ sends[i].state = "reading"
    /\ sends' = [sends EXCEPT ![i].state = "null"]
    /\ UNCHANGED <<currentPanel, webview, inbox, readyLog, events>>
    /\ UNCHANGED <<convVars, valVars, toolVars, sideVars, scanVars, sumVars, readVars, fdVars>>

\* the webview's message handler takes a loadConversation message
LoadConversation ==
    /\ inbox # <<>>
    /\ webview' = [filePath |-> Head(inbox), isRefreshing |-> FALSE]
    /\ inbox' = Tail(inbox)
    /\ UNCHANGED <<currentPanel, sends, readyLog, events>>
    /\ UNCHANGED <<convVars, valVars, toolVars, sideVars, scanVars, sumVars, readVars, fdVars>>

\* the panel is disposed (closed, or by the suspend command): onDidDispose
onDidDispose ==
    /\ currentPanel.id # 0
    /\ currentPanel' = NoPanel
    /\ webview' = Mounted
    /\ inbox' = <<>>
    /\ UNCHANGED <<sends, readyLog, events>>
    /\ UNCHANGED <<convVars, valVars, toolVars, sideVars, scanVars, sumVars, readVars, fdVars>>

NextViewer ==
    \/ \E conversationFile \in ViewerFiles \cup {NULL} :
           openConversationViewer(conversationFile)
    \/ WebviewReady
    \/ handleRefresh
    \/ \E i \in DOMAIN sends : ReadContent(i)
    \/ \E i \in DOMAIN sends : ReadNull(i)
    \/ LoadConversation
    \/ onDidDispose

\* the sends requested for the panel that is open now, in request order
PanelSends == SelectSeq(sends, LAMBDA send : send.panel = currentPanel.id)

\* C23: when the full read of a conversation file gives null,
\* sendConversationToWebview posts no loadConversation message and leaves the
\* panel title unchanged, so the webview keeps showing what it showed.
C23_NullReadChangesNothing ==
    [][\A i \in DOMAIN sends :
           (sends[i].state = "reading" /\ sends'[i].state = "null") =>
               /\ currentPanel' = currentPanel
               /\ inbox' = inbox
               /\ webview' = webview]_vars

\* a refresh of the shown conversation read null: title and content stay
C23_Witness ==
    /\ \E i \in DOMAIN sends :
           /\ sends[i].state = "null"
           /\ sends[i].via = "refresh"
           /\ sends[i].panel = currentPanel.id
           /\ sends[i].file = "a.jsonl"
    /\ currentPanel.title = "AI DevTools - b.jsonl"
    /\ webview.filePath = "b.jsonl"
    /\ inbox = <<>>

\* C24: whenever the webview posts 'ready', the conversation sent in response
\* is the one opened most recently on the panel, not the one passed when the
\* panel was created.
C24_ReadySendsLatest == readyLog.ready => readyLog.sent = readyLog.opened

\* C25: if conversation A and then conversation B are requested for the same
\* panel, then once both reads have completed the last loadConversation
\* message posted to the panel and the panel title are those of B, whatever
\* the order in which the two reads complete.
C25_LastRequestWins ==
    LET mine == PanelSends
        n == Len(mine)
    IN (/\ n >= 2
        /\ \A i \in 1..n : mine[i].state # "reading"
        /\ mine[n - 1].state = "posted"
        /\ mine[n].state = "posted") =>
           /\ currentPanel.title = PanelTitle(mine[n].file)
           /\ currentPanel.posted = mine[n].file

\* C26: every refresh requested from the webview ends its refreshing state:
\* after handleRefresh set isRefreshing, isRefreshing becomes false again,
\* also when the read of the file fails or is refused.
C26_RefreshingEnds == webview.isRefreshing ~> ~webview.isRefreshing

\* no read is in flight, no message waits, and the webview still refreshes
RefreshingSettled ==
    ~(/\ webview.isRefreshing
      /\ inbox = <<>>
      /\ \A i \in DOMAIN sends : sends[i].state # "reading")

----------------------------------------------------------------------------
(* The descriptors of readFileChunk and readFileChunkAsync *)

\* the descriptors one run opens
MaxDescriptors == 4

\* the callers of the two functions
ChunkCallers == {"loadFileSummary", "getFolderNameForCodexFile",
                 "getFolderNameForCodexFileAsync"}

NoChunkTask == [pc |-> "idle", fd |-> 0, caller |-> NULL]

ChunkTaskOver == chunkTask.pc \in {"idle", "returned", "threw"}

InitChunk ==
    /\ descriptors = {}
    /\ chunkTask = NoChunkTask
    /\ opened = 0

IdleChunk ==
    /\ descriptors = {}
    /\ chunkTask = NoChunkTask
    /\ opened = MaxDescriptors

\* readFileChunk, called by getFolderNameForCodexFile: openSync, readSync and
\* closeSync in one turn; openOk and readOk say which of them throw
readFileChunk(openOk, readOk) ==
    /\ ChunkTaskOver
    /\ opened < MaxDescriptors
    /\ IF ~openOk
       THEN /\ chunkTask' = [pc |-> "threw", fd |-> 0, caller |-> "getFolderNameForCodexFile"]
            /\ UNCHANGED <<descriptors, opened>>
       ELSE /\ opened' = opened + 1
            /\ IF ~readOk
               THEN /\ descriptors' = descriptors \cup {opened + 1}
                    /\ chunkTask' = [pc |-> "threw", fd |-> opened + 1,
                                     caller |-> "getFolderNameForCodexFile"]
               ELSE /\ descriptors' = descriptors
                    /\ chunkTask' = [pc |-> "returned", fd |-> opened + 1,
                                     caller |-> "getFolderNameForCodexFile"]
    /\ UNCHANGED <<convVars, valVars, toolVars, sideVars, scanVars, sumVars, readVars, viewVars>>

\* readFileChunkAsync up to its first await
readFileChunkAsync(caller) ==
    /\ ChunkTaskOver
    /\ opened < MaxDescriptors
    /\ chunkTask' = [pc |-> "open", fd |-> 0, caller |-> caller]
    /\ UNCHANGED <<descriptors, opened>>
    /\ UNCHANGED <<convVars, valVars, toolVars, sideVars, scanVars, sumVars, readVars, viewVars>>

\* fs.promises.open settles
ChunkOpenSettles(ok) ==
    /\ chunkTask.pc = "open"
    /\ IF ok
       THEN /\ opened' = opened + 1
            /\ descriptors' = descriptors \cup {opened + 1}
            /\ chunkTask' = [chunkTask EXCEPT !.pc = "read", !.fd = opened + 1]
       ELSE /\ chunkTask' = [chunkTask EXCEPT !.pc = "threw"]
            /\ UNCHANGED <<descriptors, opened>>
    /\ UNCHANGED <<convVars, valVars, toolVars, sideVars, scanVars, sumVars, readVars, viewVars>>

\* fd.read settles
ChunkReadSettles(ok) ==
    /\ chunkTask.pc = "read"
    /\ chunkTask' = [chunkTask EXCEPT !.pc = IF ok THEN "close" ELSE "threw"]
    /\ UNCHANGED <<descriptors, opened>>
    /\ UNCHANGED <<convVars, valVars, toolVars, sideVars, scanVars, sumVars, readVars, viewVars>>

\* fd.close settles
ChunkCloseSettles ==
    /\ chunkTask.pc = "close"
    /\ descriptors' = descriptors \ {chunkTask.fd}
    /\ chunkTask' = [chunkTask EXCEPT !.pc = "returned"]
    /\ UNCHANGED opened
    /\ UNCHANGED <<convVars, valVars, toolVars, sideVars, scanVars, sumVars, readVars, viewVars>>

NextChunk ==
    \/ \E openOk \in BOOLEAN, readOk \in BOOLEAN : readFileChunk(openOk, readOk)
    \/ \E caller \in ChunkCallers \ {"getFolderNameForCodexFile"} : readFileChunkAsync(caller)
    \/ \E ok \in BOOLEAN : ChunkOpenSettles(ok)
    \/ \E ok \in BOOLEAN : ChunkReadSettles(ok)
    \/ ChunkCloseSettles

\* C28: every descriptor opened by readFileChunk or readFileChunkAsync is
\* closed before the call returns or throws, on every path including a
\* failing read, so no sequence of calls leaves a descriptor open.
C28_DescriptorsClosed == ChunkTaskOver => descriptors = {}

----------------------------------------------------------------------------
(* Specifications *)
\* one file is normalised and validated; nothing else runs
StartConv == InitConv /\ IdleVal /\ IdleTool /\ IdleSidebar /\ IdleScan /\ IdleSummary /\ IdleRead /\ IdleViewer /\ IdleChunk

Spec == StartConv /\ [][NextConv]_vars

\* one decoded value is validated twice
StartValidate == InitVal /\ IdleConv /\ IdleTool /\ IdleSidebar /\ IdleScan /\ IdleSummary /\ IdleRead /\ IdleViewer /\ IdleChunk

SpecValidate == StartValidate /\ [][NextVal]_vars

\* one entry sequence is correlated
StartTool == InitTool /\ IdleConv /\ IdleVal /\ IdleSidebar /\ IdleScan /\ IdleSummary /\ IdleRead /\ IdleViewer /\ IdleChunk

SpecTool == StartTool /\ [][NextTool]_vars

\* the sidebar provider serves its callers
StartSidebar == InitSidebar /\ IdleConv /\ IdleVal /\ IdleTool /\ IdleScan /\ IdleSummary /\ IdleRead /\ IdleViewer /\ IdleChunk

SpecSidebar == StartSidebar /\ [][NextSidebar]_vars

\* the same, where every scan, chunk read and summaries load in flight settles
FairSidebar ==
    /\ StartSidebar
    /\ [][NextSidebar]_vars
    /\ WF_vars(ScanResolve \/ ScanReject)
    /\ WF_vars(ReadChunkResolve \/ ReadChunkReject)
    /\ WF_vars(LoadResolve)

\* one store is scanned in both modes
StartScan == InitScan /\ IdleConv /\ IdleVal /\ IdleTool /\ IdleSidebar /\ IdleSummary /\ IdleRead /\ IdleViewer /\ IdleChunk

SpecScan == StartScan /\ [][NextScan]_vars

\* one chunk is searched for a preview
StartSummary ==
    InitSummary /\ IdleConv /\ IdleVal /\ IdleTool /\ IdleSidebar /\ IdleScan /\ IdleRead /\ IdleViewer /\ IdleChunk

SpecSummary == StartSummary /\ [][NextSummary]_vars

\* one file is read in full in both modes
StartRead ==
    InitRead /\ IdleConv /\ IdleVal /\ IdleTool /\ IdleSidebar /\ IdleScan /\ IdleSummary /\ IdleViewer /\ IdleChunk

SpecRead == StartRead /\ [][NextRead]_vars

\* chunk reads follow one another
StartChunk ==
    InitChunk /\ IdleConv /\ IdleVal /\ IdleTool /\ IdleSidebar /\ IdleScan /\ IdleSummary
        /\ IdleRead /\ IdleViewer

SpecChunk == StartChunk /\ [][NextChunk]_vars

\* the viewer panel serves its commands and its webview
StartViewer ==
    InitViewer /\ IdleConv /\ IdleVal /\ IdleTool /\ IdleSidebar /\ IdleScan /\ IdleSummary
        /\ IdleRead /\ IdleChunk

SpecViewer == StartViewer /\ [][NextViewer]_vars

\* the same, where every file read settles and every posted message is taken
FairViewer ==
    /\ StartViewer
    /\ [][NextViewer]_vars
    /\ WF_vars(\E i \in DOMAIN sends : ReadContent(i) \/ ReadNull(i))
    /\ WF_vars(LoadConversation)

====
